---------------------------- MODULE Spec2Model ----------------------------
(***************************************************************************)
(* A model of the timesheet normalisation core of qtechdesign/Time         *)
(* (src/utils.py): process_data, extract_year_week, parse_iso_week and     *)
(* sort_iso_weeks.                                                         *)
(*                                                                         *)
(* Python values are modelled as follows.                                  *)
(*   - a str is the sequence of its characters, each a one-character       *)
(*     string: "W01" is <<"W","0","1">>;                                   *)
(*   - a value that is not a str is a tuple whose first element is a tag   *)
(*     that is no single character: NaN (pandas' missing cell) and PyInt0  *)
(*     (an integer object);                                                *)
(*   - an optional result (Python None, or a raised and caught exception)  *)
(*     is <<>>, a present result x is <<x>>;                               *)
(*   - a datetime is the record of its fields, NaT the record of year 0;   *)
(*     a datetime that is only compared is its proleptic Gregorian         *)
(*     ordinal (date.toordinal()).                                         *)
(***************************************************************************)
EXTENDS Integers, Sequences, FiniteSets, TLC

VARIABLES
    pc,            \* "input": arguments chosen, "returned": the call has returned
    df,            \* process_data: the caller's table
    result,        \* process_data: the returned table
    weeks,         \* sort_iso_weeks: the argument
    sorted_weeks,  \* sort_iso_weeks: the returned list
    frame,         \* process_data: its local df when grouping starts
    date_str,      \* extract_year_week: the argument
    period,        \* extract_year_week: the returned label
    week_label,  \* parse_iso_week: the argument
    first_day,     \* parse_iso_week: the returned date (an ordinal) or None
    session,       \* app.py: st.session_state
    page           \* app.py: the uploader's file, the buttons shown, the last call

callVars == <<pc, df, frame, result, weeks, sorted_weeks, date_str, period,
              week_label, first_day>>
appVars == <<session, page>>
vars == <<pc, df, frame, result, weeks, sorted_weeks, date_str, period,
          week_label, first_day, session, page>>

(***************************************************************************)
(* Bounds of the model                                                     *)
(***************************************************************************)
MaxWeeks == 3    \* labels in one call of sort_iso_weeks

(***************************************************************************)
(* Python values                                                           *)
(***************************************************************************)
None == <<>>
Some(x) == <<x>>
NaN == <<"NaN">>

Digits == <<"0","1","2","3","4","5","6","7","8","9">>
UpperLetters == <<"A","B","C","D","E","F","G","H","I","J","K","L","M",
                  "N","O","P","Q","R","S","T","U","V","W","X","Y","Z">>
LowerLetters == <<"a","b","c","d","e","f","g","h","i","j","k","l","m",
                  "n","o","p","q","r","s","t","u","v","w","x","y","z">>
Punctuation == <<" ","-","/",":","_",".">>

Range(s) == {s[i] : i \in DOMAIN s}
Chars == Range(Digits) \cup Range(UpperLetters) \cup Range(LowerLetters)
            \cup Range(Punctuation)

\* isinstance(v, str)
IsStr(v) == \A i \in DOMAIN v : v[i] \in Chars

IsDigit(c) == c \in Range(Digits)
DigitVal(c) == (CHOOSE i \in DOMAIN Digits : Digits[i] = c) - 1

\* str.lower(), character by character
LowerChar(c) ==
    IF c \in Range(UpperLetters)
    THEN LowerLetters[CHOOSE i \in DOMAIN UpperLetters : UpperLetters[i] = c]
    ELSE c
StrLower(s) == [i \in DOMAIN s |-> LowerChar(s[i])]

\* t in s, for two str
Contains(s, t) ==
    \E i \in 0..(Len(s) - Len(t)) : SubSeq(s, i + 1, i + Len(t)) = t

\* the positions at which t occurs in s
Occurrences(s, t) ==
    {i \in 1..(Len(s) - Len(t) + 1) : SubSeq(s, i, i + Len(t) - 1) = t}

AllDigits(s) == Len(s) > 0 /\ \A i \in DOMAIN s : IsDigit(s[i])

RECURSIVE DigitsValue(_)
DigitsValue(s) ==
    IF Len(s) = 0 THEN 0
    ELSE 10 * DigitsValue(SubSeq(s, 1, Len(s) - 1)) + DigitVal(s[Len(s)])

RECURSIVE StripLeft(_)
StripLeft(s) == IF Len(s) > 0 /\ s[1] = " " THEN StripLeft(Tail(s)) ELSE s
RECURSIVE StripRight(_)
StripRight(s) ==
    IF Len(s) > 0 /\ s[Len(s)] = " "
    THEN StripRight(SubSeq(s, 1, Len(s) - 1)) ELSE s

\* int(s) for a str: surrounding blanks and one sign are accepted, anything
\* else than decimal digits raises ValueError (None here).
PyIntOfStr(s) ==
    LET t == StripRight(StripLeft(s))
        neg == Len(t) > 0 /\ t[1] = "-"
        body == IF Len(t) > 0 /\ t[1] \in {"-", "+"} THEN Tail(t) ELSE t
    IN  IF AllDigits(body)
        THEN Some(IF neg THEN 0 - DigitsValue(body) ELSE DigitsValue(body))
        ELSE None

\* f"{n}" for a natural number
RECURSIVE NatStr(_)
NatStr(n) ==
    IF n < 10 THEN <<Digits[n + 1]>>
    ELSE NatStr(n \div 10) \o <<Digits[(n % 10) + 1]>>

\* f"{n:02d}" for a natural number
Pad2(n) == IF n < 10 THEN <<"0">> \o NatStr(n) ELSE NatStr(n)

(***************************************************************************)
(* Calendar arithmetic of datetime (proleptic Gregorian)                   *)
(***************************************************************************)
IsLeap(y) == (y % 4 = 0) /\ ((y % 100 # 0) \/ (y % 400 = 0))

DaysInMonth(y, m) ==
    IF m = 2 THEN (IF IsLeap(y) THEN 29 ELSE 28)
    ELSE IF m \in {4, 6, 9, 11} THEN 30 ELSE 31

DaysBeforeYear(y) ==
    LET p == y - 1 IN p * 365 + (p \div 4) - (p \div 100) + (p \div 400)

RECURSIVE DaysBeforeMonth(_, _)
DaysBeforeMonth(y, m) ==
    IF m = 1 THEN 0 ELSE DaysBeforeMonth(y, m - 1) + DaysInMonth(y, m - 1)

\* datetime(y, m, d) raises ValueError unless this holds
ValidDate(y, m, d) ==
    /\ y \in 1..9999
    /\ m \in 1..12
    /\ d \in 1..DaysInMonth(y, m)

MkDate(y, m, d) == [year |-> y, month |-> m, day |-> d]

\* date.toordinal()
Ordinal(dt) == DaysBeforeYear(dt.year) + DaysBeforeMonth(dt.year, dt.month) + dt.day

\* date.weekday() of an ordinal: Monday is 0
Weekday(ord) == (ord + 6) % 7

\* tm_yday - 1
YearDay0(dt) == DaysBeforeMonth(dt.year, dt.month) + dt.day - 1

\* strftime('%U'): week of the year, Sunday as the first day of the week;
\* the days before the first Sunday are week 0
WeekOfYearSunday(yday0, weekday) ==
    LET wdaySun == (weekday + 1) % 7
    IN  (yday0 + 7 - wdaySun) \div 7
WeekU(dt) == WeekOfYearSunday(YearDay0(dt), Weekday(Ordinal(dt)))

\* ordinal of the Monday of ISO week 1 of year y (datetime._isoweek1monday)
IsoWeek1Monday(y) ==
    LET firstday == DaysBeforeYear(y) + 1
        firstweekday == (firstday + 6) % 7
        week1monday == firstday - firstweekday
    IN  IF firstweekday > 3 THEN week1monday + 7 ELSE week1monday

\* date.isocalendar()[1], also strftime('%V')
IsoWeek(dt) ==
    LET ord == Ordinal(dt)
        w1 == IsoWeek1Monday(dt.year)
    IN  IF ord < w1
        THEN ((ord - IsoWeek1Monday(dt.year - 1)) \div 7) + 1
        ELSE IF ord >= IsoWeek1Monday(dt.year + 1)
             THEN 1
             ELSE ((ord - w1) \div 7) + 1

(***************************************************************************)
(* String constants of the source                                          *)
(***************************************************************************)
sW == <<"W">>
sDashW == <<"-","W">>
sUnderW == <<"_","W">>
sUnknownWeek == <<"U","n","k","n","o","w","n"," ","W","e","e","k">>

(***************************************************************************)
(* parse_iso_week                                                          *)
(***************************************************************************)
\* s.split(sep): the parts between the non-overlapping occurrences of sep,
\* taken from the left
RECURSIVE Split(_, _)
Split(s, sep) ==
    LET occ == Occurrences(s, sep)
    IN  IF occ = {} THEN <<s>>
        ELSE LET i == CHOOSE j \in occ : \A k \in occ : j <= k
             IN  <<SubSeq(s, 1, i - 1)>> \o
                 Split(SubSeq(s, i + Len(sep), Len(s)), sep)

\* year, week = s.split(sep); year = int(year); week = int(week)
\* None when the unpacking or an int() raises
SplitYearWeek(s, sep) ==
    LET parts == Split(s, sep)
    IN  IF Len(parts) # 2 THEN None
        ELSE LET y == PyIntOfStr(parts[1])
                 w == PyIntOfStr(parts[2])
             IN  IF y = None \/ w = None THEN None
                 ELSE Some([year |-> y[1], week |-> w[1]])

\* re.search(r'(\d{4}).*?(\d{1,2})', s): the leftmost run of four digits,
\* then the first digit after it, with the digit that follows when there is one
SearchYearWeek(s) ==
    LET starts == {i \in 1..(Len(s) - 4) :
                      /\ AllDigits(SubSeq(s, i, i + 3))
                      /\ \E j \in (i + 4)..Len(s) : IsDigit(s[j])}
    IN  IF starts = {} THEN None
        ELSE LET i == CHOOSE a \in starts : \A b \in starts : a <= b
                 js == {j \in (i + 4)..Len(s) : IsDigit(s[j])}
                 j == CHOOSE a \in js : \A b \in js : a <= b
                 w == IF j < Len(s) /\ IsDigit(s[j + 1])
                      THEN SubSeq(s, j, j + 1) ELSE SubSeq(s, j, j)
             IN  Some([year |-> DigitsValue(SubSeq(s, i, i + 3)),
                       week |-> DigitsValue(w)])

\* the Monday of the week counted from the year's first Monday, for any
\* week number: StrptimeYearWeekMonday without the range of %W
MondayOfAnyWeek(year, week) ==
    IF ~(year \in 1000..9999 /\ week >= 0) THEN None
    ELSE LET first_weekday == Weekday(DaysBeforeYear(year) + 1)
             week_0_length == (7 - first_weekday) % 7
             julian == IF week = 0 THEN 1 - first_weekday
                       ELSE 1 + week_0_length + 7 * (week - 1)
         IN  Some(DaysBeforeYear(year) + julian)

\* datetime.strptime(f'{year}-{week}-1', '%Y-%W-%w'), as an ordinal.
\* %Y takes exactly four digits and %W a number from 0 to 53; the day is
\* the Monday of that Monday-based week (_strptime._calc_julian_from_U_or_W),
\* and a day before 1 January falls in the year before.
StrptimeYearWeekMonday(year, week) ==
    IF ~(year \in 1000..9999 /\ week \in 0..53) THEN None
    ELSE LET first_weekday == Weekday(DaysBeforeYear(year) + 1)
             week_0_length == (7 - first_weekday) % 7
             julian == IF week = 0 THEN 1 - first_weekday
                       ELSE 1 + week_0_length + 7 * (week - 1)
         IN  Some(DaysBeforeYear(year) + julian)

parse_iso_week(iso_week_str) ==
    IF ~IsStr(iso_week_str) THEN None
    ELSE LET yw == IF Contains(iso_week_str, sW)
                   THEN SplitYearWeek(iso_week_str, sDashW)
                   ELSE IF Contains(iso_week_str, sUnderW)
                        THEN SplitYearWeek(iso_week_str, sUnderW)
                        ELSE SearchYearWeek(iso_week_str)
         IN  IF yw = None THEN None
             ELSE StrptimeYearWeekMonday(yw[1].year, yw[1].week)

(***************************************************************************)
(* sort_iso_weeks                                                          *)
(***************************************************************************)
\* [(week, parse_iso_week(week)) for week in weeks]
WeekDates(ws) == [i \in DOMAIN ws |-> [week |-> ws[i], date |-> parse_iso_week(ws[i])]]

\* [... for week, date in week_dates if date is not None]
RECURSIVE FilterParsed(_)
FilterParsed(wd) ==
    IF Len(wd) = 0 THEN <<>>
    ELSE IF Head(wd).date = None THEN FilterParsed(Tail(wd))
         ELSE <<Head(wd)>> \o FilterParsed(Tail(wd))

\* InsertByDate with the comparison of the keys reversed
RECURSIVE InsertByDateReversed(_, _)
InsertByDateReversed(x, s) ==
    IF Len(s) = 0 THEN <<x>>
    ELSE IF x.date[1] > Head(s).date[1] THEN <<x>> \o s
         ELSE <<Head(s)>> \o InsertByDateReversed(x, Tail(s))

\* insertion of x before the first element whose key is not smaller
RECURSIVE InsertByDateBeforeEqual(_, _)
InsertByDateBeforeEqual(x, s) ==
    IF Len(s) = 0 THEN <<x>>
    ELSE IF x.date[1] <= Head(s).date[1] THEN <<x>> \o s
         ELSE <<Head(s)>> \o InsertByDateBeforeEqual(x, Tail(s))

\* insertion of x after every element whose key is not greater
RECURSIVE InsertByDate(_, _)
InsertByDate(x, s) ==
    IF Len(s) = 0 THEN <<x>>
    ELSE IF x.date[1] < Head(s).date[1] THEN <<x>> \o s
         ELSE <<Head(s)>> \o InsertByDate(x, Tail(s))

\* sorted(week_dates, key=lambda x: x[1]): a stable sort
RECURSIVE SortedByDate(_)
SortedByDate(wd) ==
    IF Len(wd) = 0 THEN <<>>
    ELSE InsertByDate(wd[Len(wd)], SortedByDate(SubSeq(wd, 1, Len(wd) - 1)))

sort_iso_weeks(ws) ==
    LET s == SortedByDate(FilterParsed(WeekDates(ws)))
    IN  [i \in DOMAIN s |-> s[i].week]

(***************************************************************************)
(* Timestamps: datetime.strptime and pd.to_datetime                        *)
(***************************************************************************)
FieldCodes == {"%d", "%m", "%Y", "%H", "%M", "%S"}

\* date_formats, in the order of the list
date_formats == <<
    <<"%d","/","%m","/","%Y"," ","%H",":","%M">>,
    <<"%m","/","%d","/","%Y"," ","%H",":","%M">>,
    <<"%d","-","%m","-","%Y"," ","%H",":","%M">>,
    <<"%Y","-","%m","-","%d"," ","%H",":","%M",":","%S">>,
    <<"%d","/","%m","/","%Y"," ","%H",":","%M",":","%S">>,
    <<"%m","/","%d","/","%Y"," ","%H",":","%M",":","%S">> >>

RECURSIVE DigitPrefix(_)
DigitPrefix(s) ==
    IF Len(s) > 0 /\ IsDigit(s[1]) THEN <<s[1]>> \o DigitPrefix(Tail(s)) ELSE <<>>

\* the digit strings a directive of strptime accepts
FieldOk(code, run) ==
    LET n == Len(run)
        v == DigitsValue(run)
    IN  CASE code = "%Y" -> n = 4
          [] code = "%d" -> n \in 1..2 /\ v \in 1..31
          [] code = "%m" -> n \in 1..2 /\ v \in 1..12
          [] code = "%H" -> n \in 1..2 /\ v \in 0..23
          [] code = "%M" -> n \in 1..2 /\ v \in 0..59
          [] code = "%S" -> n \in 1..2 /\ v \in 0..61

FieldDefaults ==
    [c \in FieldCodes |-> IF c = "%Y" THEN 1900 ELSE IF c \in {"%d", "%m"} THEN 1 ELSE 0]

\* the whole of s against the format: a directive takes a run of digits, a
\* blank of the format one or more blanks, any other character itself
RECURSIVE MatchFormat(_, _, _)
MatchFormat(s, fmt, acc) ==
    IF Len(fmt) = 0 THEN (IF Len(s) = 0 THEN Some(acc) ELSE None)
    ELSE LET item == Head(fmt)
         IN  IF item \in FieldCodes
             THEN LET run == DigitPrefix(s)
                  IN  IF ~FieldOk(item, run) THEN None
                      ELSE MatchFormat(SubSeq(s, Len(run) + 1, Len(s)), Tail(fmt),
                                       [acc EXCEPT ![item] = DigitsValue(run)])
             ELSE IF item = " "
                  THEN LET t == StripLeft(s)
                       IN  IF Len(t) = Len(s) THEN None
                           ELSE MatchFormat(t, Tail(fmt), acc)
                  ELSE IF Len(s) > 0 /\ s[1] = item
                       THEN MatchFormat(Tail(s), Tail(fmt), acc)
                       ELSE None

MkDateTime(f) ==
    [year |-> f["%Y"], month |-> f["%m"], day |-> f["%d"],
     hour |-> f["%H"], minute |-> f["%M"], second |-> f["%S"]]

\* datetime.strptime(value, fmt): None when it raises (a value that is not
\* a str, a mismatch, a day the month does not have)
Strptime(value, fmt) ==
    IF ~IsStr(value) THEN None
    ELSE LET f == MatchFormat(value, fmt, FieldDefaults)
         IN  IF f = None THEN None
             ELSE IF ~ValidDate(f[1]["%Y"], f[1]["%m"], f[1]["%d"]) THEN None
                  ELSE Some(MkDateTime(f[1]))

\* the years a pandas Timestamp (nanoseconds since 1970 in 64 bits) holds whole
TimestampMinYear == 1678
TimestampMaxYear == 2261

\* a missing cell
IsNull(v) == v = NaN
\* the missing datetime: a datetime of the year 0, which no date has
NaT == [year |-> 0, month |-> 0, day |-> 0, hour |-> 0, minute |-> 0, second |-> 0]
IsNaT(v) == v.year = 0

\* df[c].iloc[0] if not pd.isna(df[c].iloc[0]) else df[c].dropna().iloc[0]
\* None when the column has no such value (IndexError)
RECURSIVE FirstNotNull(_)
FirstNotNull(col) ==
    IF Len(col) = 0 THEN None
    ELSE IF IsNull(Head(col)) THEN FirstNotNull(Tail(col))
         ELSE Some(Head(col))

\* pd.to_datetime(col, format=fmt): a missing cell becomes NaT; None when a
\* cell does not parse or is out of the Timestamp range (the call raises)
ToDatetimeFormat(col, fmt) ==
    LET one(v) == IF IsNull(v) THEN Some(NaT)
                  ELSE LET d == Strptime(v, fmt)
                       IN  IF d = None THEN None
                           ELSE IF d[1].year \in TimestampMinYear..TimestampMaxYear
                                THEN d ELSE None
    IN  IF \E i \in DOMAIN col : one(col[i]) = None THEN None
        ELSE Some([i \in DOMAIN col |-> one(col[i])[1]])

\* the body of the loop over date_formats for one format: the sample value
\* is tried with datetime.strptime, then the whole column is converted
TryDateFormat(col, fmt) ==
    LET sample == FirstNotNull(col)
    IN  IF sample = None THEN None
        ELSE IF Strptime(sample[1], fmt) = None THEN None
             ELSE ToDatetimeFormat(col, fmt)

\* the loop over date_formats without its break: the last format that
\* converts the column
RECURSIVE LastDateFormat(_, _)
LastDateFormat(col, k) ==
    IF k > Len(date_formats) THEN None
    ELSE LET r == TryDateFormat(col, date_formats[k])
             later == LastDateFormat(col, k + 1)
         IN  IF later # None THEN later
             ELSE IF r # None THEN Some([format |-> k, values |-> r[1]])
                  ELSE None

\* the loop over date_formats: the first format that converts the column
RECURSIVE FirstDateFormat(_, _)
FirstDateFormat(col, k) ==
    IF k > Len(date_formats) THEN None
    ELSE LET r == TryDateFormat(col, date_formats[k])
         IN  IF r # None THEN Some([format |-> k, values |-> r[1]])
             ELSE FirstDateFormat(col, k + 1)

\* The shapes pd.to_datetime(col) without a format reads (dateutil, with
\* dayfirst=False): year first, else month first, else, when the first
\* number is no month, day first; the time of day and its seconds optional.
PermissiveDates == <<
    <<"%Y","-","%m","-","%d">>, <<"%Y","/","%m","/","%d">>,
    <<"%m","/","%d","/","%Y">>, <<"%m","-","%d","-","%Y">>,
    <<"%d","/","%m","/","%Y">>, <<"%d","-","%m","-","%Y">> >>
PermissiveTimes == <<
    <<>>, <<" ","%H",":","%M">>, <<" ","%H",":","%M",":","%S">> >>
PermissiveFormats ==
    [k \in 1..(Len(PermissiveDates) * Len(PermissiveTimes)) |->
        PermissiveDates[((k - 1) \div Len(PermissiveTimes)) + 1]
            \o PermissiveTimes[((k - 1) % Len(PermissiveTimes)) + 1]]

RECURSIVE GuessFormat(_, _)
GuessFormat(value, k) ==
    IF k > Len(PermissiveFormats) THEN None
    ELSE IF Strptime(value, PermissiveFormats[k]) # None THEN Some(k)
         ELSE GuessFormat(value, k + 1)

\* pd.to_datetime(col): None when it raises.  With inferFormat (pandas 2)
\* the format is guessed from the first value that is not missing and every
\* value must follow it; without (pandas 1) each value is read on its own.
ToDatetime(col, inferFormat) ==
    LET sample == FirstNotNull(col)
    IN  IF sample = None THEN Some([i \in DOMAIN col |-> NaT])
        ELSE IF inferFormat
             THEN LET g == GuessFormat(sample[1], 1)
                  IN  IF g = None THEN None
                      ELSE ToDatetimeFormat(col, PermissiveFormats[g[1]])
             ELSE LET one(v) ==
                          IF IsNull(v) THEN Some(<<NaT>>)
                          ELSE LET g == GuessFormat(v, 1)
                               IN  IF g = None THEN None
                                   ELSE ToDatetimeFormat(<<v>>, PermissiveFormats[g[1]])
                  IN  IF \E i \in DOMAIN col : one(col[i]) = None THEN None
                      ELSE Some([i \in DOMAIN col |-> one(col[i])[1][1]])

\* Series.dt.strftime(fmt) of one value: NaT gives a missing value
sYearW == <<"-","W">>
StrftimeYU(v) == IF IsNaT(v) THEN NaN ELSE NatStr(v.year) \o sYearW \o Pad2(WeekU(v))
StrftimeYV(v) == IF IsNaT(v) THEN NaN ELSE NatStr(v.year) \o sYearW \o Pad2(IsoWeek(v))

(***************************************************************************)
(* extract_year_week                                                       *)
(***************************************************************************)
IsDateSep(c) == c \in {"/", "-"}
DigitsAt(s, i, n) == i >= 1 /\ i + n - 1 <= Len(s) /\ \A k \in i..(i + n - 1) : IsDigit(s[k])
SepAt(s, i) == i >= 1 /\ i <= Len(s) /\ IsDateSep(s[i])

\* re.search(r'(\d{1,2})[/\-](\d{1,2})[/\-](\d{4})', date_str): the groups
\* of the leftmost match, None without a match
SearchDayMonthYear(s) ==
    LET m == {t \in (1..Len(s)) \X (1..2) \X (1..2) :
                 /\ DigitsAt(s, t[1], t[2])
                 /\ SepAt(s, t[1] + t[2])
                 /\ DigitsAt(s, t[1] + t[2] + 1, t[3])
                 /\ SepAt(s, t[1] + t[2] + 1 + t[3])
                 /\ DigitsAt(s, t[1] + t[2] + 2 + t[3], 4)}
    IN  IF m = {} THEN None
        ELSE LET t == CHOOSE a \in m : \A b \in m : a[1] <= b[1]
                 i == t[1]
                 j == i + t[2] + 1
                 k == j + t[3] + 1
             IN  Some(<<SubSeq(s, i, i + t[2] - 1), SubSeq(s, j, j + t[3] - 1),
                        SubSeq(s, k, k + 3)>>)

\* re.search(r'(\d{4})[/\-](\d{1,2})[/\-](\d{1,2})', date_str)
SearchYearMonthDay(s) ==
    LET m == {t \in (1..Len(s)) \X (1..2) :
                 /\ DigitsAt(s, t[1], 4)
                 /\ SepAt(s, t[1] + 4)
                 /\ DigitsAt(s, t[1] + 5, t[2])
                 /\ SepAt(s, t[1] + 5 + t[2])
                 /\ DigitsAt(s, t[1] + 6 + t[2], 1)}
    IN  IF m = {} THEN None
        ELSE LET t == CHOOSE a \in m : \A b \in m : a[1] <= b[1]
                 i == t[1]
                 j == i + 5
                 k == j + t[2] + 1
                 n == IF DigitsAt(s, k, 2) THEN 2 ELSE 1
             IN  Some(<<SubSeq(s, i, i + 3), SubSeq(s, j, j + t[2] - 1),
                        SubSeq(s, k, k + n - 1)>>)

\* as IsoLabel, the day checked against 31 whatever the month
IsoLabelAnyMonthLength(year, month, day) ==
    LET y == DigitsValue(year)
        m == DigitsValue(month)
        d == DigitsValue(day)
    IN  IF y \in 1..9999 /\ m \in 1..12 /\ d \in 1..31
        THEN year \o sYearW \o Pad2(IsoWeek(MkDate(y, m, d)))
        ELSE sUnknownWeek

\* dt = datetime(int(year), int(month), int(day));
\* f"{year}-W{dt.isocalendar()[1]:02d}", or the except branch
IsoLabel(year, month, day) ==
    LET y == DigitsValue(year)
        m == DigitsValue(month)
        d == DigitsValue(day)
    IN  IF ValidDate(y, m, d)
        THEN year \o sYearW \o Pad2(IsoWeek(MkDate(y, m, d)))
        ELSE sUnknownWeek

extract_year_week(s) ==
    IF ~IsStr(s) THEN sUnknownWeek
    ELSE LET dmy == SearchDayMonthYear(s)
         IN  IF dmy # None
             THEN IsoLabel(dmy[1][3], dmy[1][2], dmy[1][1])
             ELSE LET ymd == SearchYearMonthDay(s)
                  IN  IF ymd # None
                      THEN IsoLabel(ymd[1][1], ymd[1][2], ymd[1][3])
                      ELSE sUnknownWeek


(***************************************************************************)
(* Column names, name lists and default values of process_data             *)
(***************************************************************************)
sContractor == <<"C","o","n","t","r","a","c","t","o","r">>
sCompany == <<"C","o","m","p","a","n","y">>
sOrganization == <<"O","r","g","a","n","i","z","a","t","i","o","n">>
sEmployer == <<"E","m","p","l","o","y","e","r">>
sClient == <<"C","l","i","e","n","t">>
sVendor == <<"V","e","n","d","o","r">>
sSupplier == <<"S","u","p","p","l","i","e","r">>
sProvider == <<"P","r","o","v","i","d","e","r">>
sRole == <<"R","o","l","e">>
sJobTitle == <<"J","o","b","T","i","t","l","e">>
sJob_Title == <<"J","o","b"," ","T","i","t","l","e">>
sPosition == <<"P","o","s","i","t","i","o","n">>
sTrade == <<"T","r","a","d","e">>
sOccupation == <<"O","c","c","u","p","a","t","i","o","n">>
sWorker_Name == <<"W","o","r","k","e","r"," ","N","a","m","e">>
sWorker_ID == <<"W","o","r","k","e","r"," ","I","D">>
sBio_ID == <<"B","i","o"," ","I","D">>
sName == <<"N","a","m","e">>
sPerson == <<"P","e","r","s","o","n">>
sEmployee == <<"E","m","p","l","o","y","e","e">>
sStaff == <<"S","t","a","f","f">>
sIn == <<"I","n">>
sOut == <<"O","u","t">>
sArea == <<"A","r","e","a">>
sLocation == <<"L","o","c","a","t","i","o","n">>
sSite == <<"S","i","t","e">>
sPlace == <<"P","l","a","c","e">>
sZone == <<"Z","o","n","e">>
sTotal_Minutes == <<"T","o","t","a","l"," ","M","i","n","u","t","e","s">>
sISO_Week == <<"I","S","O"," ","W","e","e","k">>
sDuration == <<"D","u","r","a","t","i","o","n">>
sDateTime == <<"D","a","t","e","T","i","m","e">>
sPersonIdentifier == <<"P","e","r","s","o","n","I","d","e","n","t","i","f","i","e","r">>
sUnknown_Contractor == <<"U","n","k","n","o","w","n"," ","C","o","n","t","r","a","c","t","o","r">>
sWorker == <<"W","o","r","k","e","r">>
sUnknown == <<"U","n","k","n","o","w","n">>
sl_date == <<"d","a","t","e">>
sl_time == <<"t","i","m","e">>
sl_role == <<"r","o","l","e">>
sl_position == <<"p","o","s","i","t","i","o","n">>
sl_job_title == <<"j","o","b"," ","t","i","t","l","e">>
sl_trade == <<"t","r","a","d","e">>
sl_jobtitle == <<"j","o","b","t","i","t","l","e">>
sl_occupation == <<"o","c","c","u","p","a","t","i","o","n">>
sl_contractor == <<"c","o","n","t","r","a","c","t","o","r">>
sl_company == <<"c","o","m","p","a","n","y">>
sl_organization == <<"o","r","g","a","n","i","z","a","t","i","o","n">>
sl_employer == <<"e","m","p","l","o","y","e","r">>
sl_client == <<"c","l","i","e","n","t">>
sl_vendor == <<"v","e","n","d","o","r">>
sl_supplier == <<"s","u","p","p","l","i","e","r">>
sManager == <<"M","a","n","a","g","e","r">>
sSupervisor == <<"S","u","p","e","r","v","i","s","o","r">>
sOperative == <<"O","p","e","r","a","t","i","v","e">>
sDirector == <<"D","i","r","e","c","t","o","r">>
sContractor_A == <<"C","o","n","t","r","a","c","t","o","r"," ","A">>
sContractor_B == <<"C","o","n","t","r","a","c","t","o","r"," ","B">>
sContractor_C == <<"C","o","n","t","r","a","c","t","o","r"," ","C">>
sDate == <<"D","a","t","e">>
sl_nan == <<"n","a","n">>
sl_name == <<"n","a","m","e">>
sl_worker == <<"w","o","r","k","e","r">>
sl_person == <<"p","e","r","s","o","n">>
sl_employee == <<"e","m","p","l","o","y","e","e">>
sUnderscore == <<"_">>

\* ['Contractor'] + contractor_cols of the time-tracker family
contractor_cols == <<sContractor, sCompany, sOrganization, sEmployer, sClient,
                     sVendor, sSupplier, sProvider>>
\* role_cols of the time-tracker family
role_cols == <<sJobTitle, sJob_Title, sPosition, sTrade, sOccupation>>
area_cols == <<sLocation, sSite, sPlace, sZone>>
person_cols == <<sName, sPerson, sEmployee, sStaff>>
\* the lists of the generic family
generic_role_alt == <<sPosition, sJob_Title, sTrade, sJobTitle, sOccupation>>
generic_role_lower == {sl_role, sl_position, sl_job_title, sl_trade, sl_jobtitle,
                       sl_occupation}
generic_contractor_alt == <<sCompany, sOrganization, sEmployer, sClient, sVendor,
                            sSupplier>>
generic_contractor_lower == {sl_contractor, sl_company, sl_organization, sl_employer,
                             sl_client, sl_vendor, sl_supplier}

\* the default of PersonIdentifier in the place of that of Contractor
DefaultContractorOfPerson == sUnknown
DefaultContractor == sUnknown_Contractor
DefaultRole == sWorker
DefaultArea == sSite
DefaultPerson == sUnknown
DefaultWeek == sUnknownWeek

(***************************************************************************)
(* Tables.  A DataFrame is [columns, values, len]: the column names in     *)
(* order, the columns (each the sequence of its len cells) in the same     *)
(* order.  The working copy of process_data also carries raised: an        *)
(* exception has left the try block for the outer except clause, and own:  *)
(* the local name df is bound to an object of its own, not to the caller's.*)
(* An argument that is no DataFrame (None, for one) is the record          *)
(* NotATable, which has the mark object.                                   *)
(***************************************************************************)
NotATable == [columns |-> <<>>, values |-> <<>>, len |-> 0, object |-> "None"]
IsTable(t) == "object" \notin DOMAIN t

HasCol(t, name) == \E i \in DOMAIN t.columns : t.columns[i] = name
ColIndex(t, name) ==
    CHOOSE i \in DOMAIN t.columns :
        t.columns[i] = name /\ \A j \in 1..(i - 1) : t.columns[j] # name
Col(t, name) == t.values[ColIndex(t, name)]

\* df[name] = col
SetCol(t, name, col) ==
    IF HasCol(t, name)
    THEN [t EXCEPT !.values[ColIndex(t, name)] = col]
    ELSE [t EXCEPT !.columns = Append(@, name), !.values = Append(@, col)]

\* df[name] = scalar
Broadcast(t, v) == [i \in 1..t.len |-> v]

Raise(t) == [t EXCEPT !.raised = TRUE]

\* the frame bound to the caller's own object: what df = df would give
SameObject(t) ==
    [columns |-> t.columns, values |-> t.values, len |-> t.len,
     raised |-> ~IsTable(t), own |-> FALSE]

\* df = df.copy(): a new object with the caller's columns and cells; an
\* argument without a copy method raises (AttributeError)
Copy(t) ==
    [columns |-> t.columns, values |-> t.values, len |-> t.len,
     raised |-> ~IsTable(t), own |-> TRUE]

\* the caller's table once the statements of process_data have run on the
\* frame f: assignments to columns of an object the caller shares show
CallerTable(t, f) ==
    IF f.own \/ ~IsTable(t) THEN t
    ELSE [columns |-> f.columns, values |-> f.values, len |-> f.len]

MinOf(S) == CHOOSE a \in S : \A b \in S : a <= b

\* for col in df.columns: if P(col.lower()): ...; break  -- the index of the
\* first column whose lower-cased name satisfies P (0: the loop ran to its
\* else), or raised: a name that is not a str was reached first
ScanColumns(t, P(_)) ==
    LET hit == {i \in DOMAIN t.columns : IsStr(t.columns[i]) /\ P(StrLower(t.columns[i]))}
        bad == {i \in DOMAIN t.columns : ~IsStr(t.columns[i])}
    IN  IF hit # {} /\ (bad = {} \/ MinOf(hit) < MinOf(bad))
        THEN [found |-> MinOf(hit), raised |-> FALSE]
        ELSE [found |-> 0, raised |-> bad # {}]

LowerIn(name, list) == \E i \in DOMAIN list : name = StrLower(list[i])
LowerContainsAny(name, list) == \E i \in DOMAIN list : Contains(name, StrLower(list[i]))

\* Series.nunique(): the distinct values that are not missing
NUnique(col) == Cardinality({col[i] : i \in DOMAIN col} \ {NaN})

\* len(df.columns) > 0 and df[df.columns[0]].nunique() < len(df) / 2
MostlyRepeated(t) == Len(t.columns) > 0 /\ 2 * NUnique(t.values[1]) < t.len

(***************************************************************************)
(* process_data, time-tracker family                                       *)
(***************************************************************************)
\* Ensure Contractor column exists
ContractorStep(t) ==
    IF HasCol(t, sContractor) THEN t
    ELSE LET exact == ScanColumns(t, LAMBDA n : LowerIn(n, contractor_cols))
             sub == ScanColumns(t, LAMBDA n : LowerContainsAny(n, contractor_cols))
         IN  IF exact.raised THEN Raise(t)
             ELSE IF exact.found # 0
                  THEN SetCol(t, sContractor, t.values[exact.found])
                  ELSE IF sub.found # 0
                       THEN SetCol(t, sContractor, t.values[sub.found])
                       ELSE IF Len(t.columns) > 0 /\ MostlyRepeated(t)
                            THEN SetCol(t, sContractor, t.values[1])
                            ELSE SetCol(t, sContractor, Broadcast(t, DefaultContractor))

\* Ensure Role column exists
RoleStep(t) ==
    IF HasCol(t, sRole) THEN t
    ELSE LET exact == ScanColumns(t, LAMBDA n : LowerIn(n, role_cols))
             sub == ScanColumns(t, LAMBDA n : LowerContainsAny(n, role_cols))
         IN  IF exact.raised THEN Raise(t)
             ELSE IF exact.found # 0
                  THEN SetCol(t, sRole, t.values[exact.found])
                  ELSE IF sub.found # 0
                       THEN SetCol(t, sRole, t.values[sub.found])
                       ELSE SetCol(t, sRole, Broadcast(t, DefaultRole))

\* df['DateTime'] = ...; df['ISO Week'] = df['DateTime'].dt.strftime('%Y-W%U');
\* df['Date'] = df['DateTime'].dt.date
WithWeekU(t, dates) ==
    SetCol(SetCol(SetCol(t, sDateTime, dates),
                  sISO_Week, [i \in DOMAIN dates |-> StrftimeYU(dates[i])]),
           sDate, dates)

\* Process date columns (In/Out): the listed formats, then the pandas
\* default parser, then extract_year_week on each value
InOutDates(t, inferFormat) ==
    LET col == Col(t, sIn)
        listed == FirstDateFormat(col, 1)
        parsed == IF listed # None THEN Some(listed[1].values)
                  ELSE ToDatetime(col, inferFormat)
    IN  IF parsed # None
        THEN WithWeekU(t, parsed[1])
        ELSE SetCol(t, sISO_Week, [i \in DOMAIN col |-> extract_year_week(col[i])])

\* the columns whose name contains 'date' or 'time'
DateCols(t) ==
    {i \in DOMAIN t.columns :
        Contains(StrLower(t.columns[i]), sl_date) \/ Contains(StrLower(t.columns[i]), sl_time)}

\* Look for other date/time columns
OtherDates(t, inferFormat) ==
    IF \E i \in DOMAIN t.columns : ~IsStr(t.columns[i]) THEN Raise(t)
    ELSE IF DateCols(t) # {}
         THEN LET parsed == ToDatetime(t.values[MinOf(DateCols(t))], inferFormat)
              IN  IF parsed # None THEN WithWeekU(t, parsed[1])
                  ELSE SetCol(t, sISO_Week, Broadcast(t, DefaultWeek))
         ELSE SetCol(t, sISO_Week, Broadcast(t, DefaultWeek))

DatesStep(t, inferFormat) ==
    IF HasCol(t, sIn) /\ HasCol(t, sOut)
    THEN InOutDates(t, inferFormat)
    ELSE OtherDates(t, inferFormat)

\* Duration.  A cell of the Duration column is a float: a record of its
\* number of seconds (the value before the division by 60 of the source, so
\* that it stays an integer), or the float NaN.  A Duration of n minutes is
\* Minutes(n).
SecondsPerMinute == 60
DefaultDurationMinutes == 60
Float(seconds) == [nan |-> FALSE, seconds |-> seconds]
FloatNaN == [nan |-> TRUE, seconds |-> 0]
Minutes(n) == Float(n * SecondsPerMinute)
DefaultDuration == Minutes(DefaultDurationMinutes)

\* pd.to_numeric(col, errors='coerce') of one cell that holds an integer or
\* no number: a value that is no number becomes NaN
ToNumeric(v) ==
    IF IsStr(v) /\ PyIntOfStr(v) # None THEN Minutes(PyIntOfStr(v)[1]) ELSE FloatNaN

\* the seconds from midnight to the time of a datetime
SecondsOfDay(d) == (d.hour * 60 + d.minute) * 60 + d.second

\* the seconds from a to b
SecondsBetween(a, b) ==
    (Ordinal(b) - Ordinal(a)) * 24 * 60 * 60 + SecondsOfDay(b) - SecondsOfDay(a)

\* (out_time - in_time).dt.total_seconds() of one row: NaT gives NaN
Elapsed(in_time, out_time) ==
    IF IsNaT(in_time) \/ IsNaT(out_time) THEN FloatNaN
    ELSE Float(SecondsBetween(in_time, out_time))

\* for date_format in date_formats: in_time = ...; out_time = ...; break --
\* None when the loop ends without break (out_time is then not bound)
RECURSIVE BothWithFormat(_, _)
BothWithFormat(t, k) ==
    IF k > Len(date_formats) THEN None
    ELSE LET both(i, o) ==
                 IF i # None /\ o # None THEN Some([in_time |-> i[1], out_time |-> o[1]])
                 ELSE BothWithFormat(t, k + 1)
         IN  both(ToDatetimeFormat(Col(t, sIn), date_formats[k]),
                  ToDatetimeFormat(Col(t, sOut), date_formats[k]))

\* Convert In/Out to datetime if not already done: None when the try block
\* is left by an exception
InOutTimes(t, inferFormat) ==
    IF HasCol(t, sDateTime)
    THEN LET out(o) ==
                 IF o = None THEN None
                 ELSE Some([in_time |-> Col(t, sDateTime), out_time |-> o[1]])
         IN  out(ToDatetime(Col(t, sOut), inferFormat))
    ELSE LET both(i, o) ==
                 IF i # None /\ o # None THEN Some([in_time |-> i[1], out_time |-> o[1]])
                 ELSE BothWithFormat(t, 1)
         IN  both(ToDatetime(Col(t, sIn), inferFormat),
                  ToDatetime(Col(t, sOut), inferFormat))

\* Calculate time spent if needed
DurationStep(t, inferFormat) ==
    IF HasCol(t, sTotal_Minutes)
    THEN SetCol(t, sDuration,
                [i \in 1..t.len |-> ToNumeric(Col(t, sTotal_Minutes)[i])])
    ELSE IF HasCol(t, sIn) /\ HasCol(t, sOut)
         THEN LET duration(times) ==
                      IF times = None
                      THEN SetCol(t, sDuration, Broadcast(t, DefaultDuration))
                      ELSE SetCol(t, sDuration,
                                  [i \in 1..t.len |->
                                      Elapsed(times[1].in_time[i], times[1].out_time[i])])
              IN  duration(InOutTimes(t, inferFormat))
         ELSE SetCol(t, sDuration, Broadcast(t, DefaultDuration))

\* Check for Area column
AreaStep(t) ==
    IF HasCol(t, sArea) THEN t
    ELSE LET exact == ScanColumns(t, LAMBDA n : LowerIn(n, area_cols))
         IN  IF exact.raised THEN Raise(t)
             ELSE IF exact.found # 0
                  THEN SetCol(t, sArea, t.values[exact.found])
                  ELSE SetCol(t, sArea, Broadcast(t, DefaultArea))

\* Series.astype(str) of one cell
AsTypeStr(v) == IF IsNull(v) THEN sl_nan ELSE v

\* a column of missing values only has dtype float64, and float64 + str raises
FloatColumn(col) == Len(col) > 0 /\ \A i \in DOMAIN col : IsNull(col[i])

\* df['PersonIdentifier'] + '_' + df['Worker ID'].astype(str): a missing
\* name stays missing
NameWithId(name, id) ==
    IF IsNull(name) THEN NaN ELSE name \o sUnderscore \o AsTypeStr(id)

\* Create PersonIdentifier
PersonStep(t) ==
    IF HasCol(t, sWorker_Name)
    THEN IF HasCol(t, sWorker_ID)
         THEN IF FloatColumn(Col(t, sWorker_Name)) THEN Raise(t)
              ELSE SetCol(t, sPersonIdentifier,
                          [i \in 1..t.len |->
                              NameWithId(Col(t, sWorker_Name)[i], Col(t, sWorker_ID)[i])])
         ELSE SetCol(t, sPersonIdentifier, Col(t, sWorker_Name))
    ELSE IF HasCol(t, sBio_ID)
         THEN SetCol(t, sPersonIdentifier, Col(t, sBio_ID))
         ELSE LET any == ScanColumns(t, LAMBDA n : LowerIn(n, person_cols)
                                                    \/ LowerContainsAny(n, person_cols))
              IN  IF any.raised THEN Raise(t)
                  ELSE IF any.found # 0
                       THEN SetCol(t, sPersonIdentifier, t.values[any.found])
                       ELSE SetCol(t, sPersonIdentifier, Broadcast(t, DefaultPerson))


(***************************************************************************)
(* Grouping: drop_duplicates, groupby(...).size().reset_index(...)         *)
(***************************************************************************)
Ascii == <<" ","-",".","/">> \o Digits \o <<":">> \o UpperLetters \o <<"_">> \o LowerLetters
Code(c) == CHOOSE i \in DOMAIN Ascii : Ascii[i] = c

\* a < b for two str
RECURSIVE StrLess(_, _)
StrLess(a, b) ==
    IF Len(b) = 0 THEN FALSE
    ELSE IF Len(a) = 0 THEN TRUE
         ELSE IF a[1] = b[1] THEN StrLess(Tail(a), Tail(b))
              ELSE Code(a[1]) < Code(b[1])

\* the order of group keys (tuples of str)
RECURSIVE KeyLess(_, _)
KeyLess(a, b) ==
    IF Len(a) = 0 THEN FALSE
    ELSE IF a[1] = b[1] THEN KeyLess(Tail(a), Tail(b))
         ELSE StrLess(a[1], b[1])

RECURSIVE SortKeys(_)
SortKeys(S) ==
    IF S = {} THEN <<>>
    ELSE LET m == CHOOSE a \in S : \A b \in S \ {a} : KeyLess(a, b)
         IN  <<m>> \o SortKeys(S \ {m})

Key3(t, i) == <<Col(t, sISO_Week)[i], Col(t, sRole)[i], Col(t, sContractor)[i]>>
Key4(t, i) == Key3(t, i) \o <<Col(t, sPersonIdentifier)[i]>>

\* drop_duplicates with subset=['PersonIdentifier'] alone
DropDuplicatesByPerson(t) ==
    {i \in 1..t.len :
        \A j \in 1..(i - 1) : Col(t, sPersonIdentifier)[j] # Col(t, sPersonIdentifier)[i]}

\* df.drop_duplicates(subset=['ISO Week', 'Role', 'Contractor',
\* 'PersonIdentifier']): the rows kept, each the first with its values
DropDuplicates(t) ==
    {i \in 1..t.len : \A j \in 1..(i - 1) : Key4(t, j) # Key4(t, i)}

AllRows(t) == 1..t.len

\* groupby(['ISO Week', 'Role', 'Contractor']) leaves out the rows with a
\* missing key (dropna=True)
HasNullKey(t, i) == \E k \in 1..3 : IsNull(Key3(t, i)[k])

MkRecord(week, role, contractor, n) ==
    [ISO_Week |-> week, Role |-> role, Contractor |-> contractor,
     Number_of_Workers |-> n]

\* the size of a group, one short
GroupSizeOneShort(t, rows, key) == Cardinality({i \in rows : Key3(t, i) = key}) - 1

\* .size() of one group
GroupSize(t, rows, key) == Cardinality({i \in rows : Key3(t, i) = key})

\* rows.groupby(['ISO Week', 'Role', 'Contractor']).size()
\*     .reset_index(name='Number of Workers'), the groups in key order
GroupBySize(t, rows) ==
    LET keys == SortKeys({Key3(t, i) : i \in {j \in rows : ~HasNullKey(t, j)}})
    IN  [g \in DOMAIN keys |->
            MkRecord(keys[g][1], keys[g][2], keys[g][3], GroupSize(t, rows, keys[g]))]

\* the default result
DefaultResult == <<MkRecord(DefaultWeek, DefaultRole, DefaultContractor, 1)>>

\* Count unique workers per week, role, and contractor; the except clauses
\* need a raising groupby, which a frame holding the four columns never
\* gives.  Ensure result is not empty.
GroupTimeTracker(t) ==
    LET grouped == GroupBySize(t, DropDuplicates(t))
    IN  IF Len(grouped) = 0 THEN DefaultResult ELSE grouped

\* Group by ISO Week, Role, and Contractor, count occurrences
GroupGeneric(t) == GroupBySize(t, AllRows(t))

(***************************************************************************)
(* process_data, generic family                                            *)
(***************************************************************************)
GenericDateCols(t) ==
    {i \in DOMAIN t.columns :
        \/ Contains(StrLower(t.columns[i]), sl_date)
        \/ Contains(StrLower(t.columns[i]), sl_time)
        \/ t.columns[i] \in {sIn, sOut}}

\* If ISO Week column doesn't exist, try to create it from Date or similar column
GenericWeekStep(t, inferFormat) ==
    IF HasCol(t, sISO_Week) THEN t
    ELSE IF \E i \in DOMAIN t.columns : ~IsStr(t.columns[i]) THEN Raise(t)
         ELSE IF GenericDateCols(t) # {}
              THEN LET parsed == ToDatetime(t.values[MinOf(GenericDateCols(t))], inferFormat)
                   IN  IF parsed # None
                       THEN SetCol(t, sISO_Week,
                                   [i \in 1..t.len |-> StrftimeYV(parsed[1][i])])
                       ELSE SetCol(t, sISO_Week, Broadcast(t, DefaultWeek))
              ELSE SetCol(t, sISO_Week, Broadcast(t, DefaultWeek))

\* the first name of the list that is a column: 0 when none is
FirstListed(t, list) ==
    LET hit == {k \in DOMAIN list : HasCol(t, list[k])}
    IN  IF hit = {} THEN 0 ELSE MinOf(hit)

\* If Role missing, try alternative columns
GenericRoleStep(t) ==
    IF HasCol(t, sRole) THEN t
    ELSE LET alt == FirstListed(t, generic_role_alt)
             ci == ScanColumns(t, LAMBDA n : n \in generic_role_lower)
         IN  IF alt # 0 THEN SetCol(t, sRole, Col(t, generic_role_alt[alt]))
             ELSE IF ci.raised THEN Raise(t)
                  ELSE IF ci.found # 0 THEN SetCol(t, sRole, t.values[ci.found])
                       ELSE SetCol(t, sRole, Broadcast(t, DefaultRole))

\* Ensure Contractor column exists
GenericContractorStep(t) ==
    IF HasCol(t, sContractor) THEN t
    ELSE LET alt == FirstListed(t, generic_contractor_alt)
             ci == ScanColumns(t, LAMBDA n : n \in generic_contractor_lower)
         IN  IF alt # 0 THEN SetCol(t, sContractor, Col(t, generic_contractor_alt[alt]))
             ELSE IF ci.raised THEN Raise(t)
                  ELSE IF ci.found # 0 THEN SetCol(t, sContractor, t.values[ci.found])
                       ELSE SetCol(t, sContractor, Broadcast(t, DefaultContractor))

(***************************************************************************)
(* process_data, the synthetic dataset of the outer except clause          *)
(***************************************************************************)
SyntheticWeekCount == 14
SyntheticLow == 1
SyntheticHigh == 20
\* the weeks of range(1, 14): the list one week short
synthetic_weeks_short ==
    [w \in 1..(SyntheticWeekCount - 1) |-> <<"2","0","2","3","-","W">> \o Pad2(w)]

synthetic_weeks ==
    [w \in 1..SyntheticWeekCount |-> <<"2","0","2","3","-","W">> \o Pad2(w)]
synthetic_roles == <<sManager, sSupervisor, sOperative, sDirector>>
synthetic_contractors == <<sContractor_A, sContractor_B, sContractor_C>>

\* np.random.randint(1, 20): a number from 1 to 19
RandInt == SyntheticLow..(SyntheticHigh - 1)

\* the three nested loops; the k-th append takes the k-th draw.  draws is a
\* sequence of numbers of RandInt, read cyclically.
Synthetic(draws) ==
    LET nr == Len(synthetic_roles)
        nc == Len(synthetic_contractors)
    IN  [k \in 1..(Len(synthetic_weeks) * nr * nc) |->
            MkRecord(synthetic_weeks[((k - 1) \div (nr * nc)) + 1],
                     synthetic_roles[(((k - 1) \div nc) % nr) + 1],
                     synthetic_contractors[((k - 1) % nc) + 1],
                     draws[((k - 1) % Len(draws)) + 1])]

(***************************************************************************)
(* process_data                                                            *)
(***************************************************************************)
\* Check if this is likely the Time Tracker format
time_format(t) == \E c \in {sIn, sOut, sWorker_Name} : HasCol(t, c)

\* a statement of the try block runs unless an earlier one has raised
Then(t, Step(_)) == IF t.raised THEN t ELSE Step(t)

\* the frame of the time-tracker family before grouping
NormalizeTimeTracker(t, inferFormat) ==
    Then(Then(Then(Then(Then(ContractorStep(t), RoleStep),
                        LAMBDA u : DatesStep(u, inferFormat)),
                   LAMBDA u : DurationStep(u, inferFormat)),
              AreaStep),
         PersonStep)

\* the frame of the generic family before grouping
NormalizeGeneric(t, inferFormat) ==
    Then(Then(GenericWeekStep(t, inferFormat), GenericRoleStep), GenericContractorStep)

\* the local df of process_data when grouping starts
Normalize(input, inferFormat) ==
    LET copy == Copy(input)
    IN  IF copy.raised THEN copy
        ELSE IF time_format(copy)
             THEN NormalizeTimeTracker(copy, inferFormat)
             ELSE NormalizeGeneric(copy, inferFormat)

\* the table the try block returns for a normalised frame
Grouped(t) == IF time_format(t) THEN GroupTimeTracker(t) ELSE GroupGeneric(t)

\* the table process_data returns for a normalised frame
Aggregate(t, draws) == IF t.raised THEN Synthetic(draws) ELSE Grouped(t)

process_data(input, inferFormat, draws) == Aggregate(Normalize(input, inferFormat), draws)

(***************************************************************************)
(* The inputs of the model                                                 *)
(***************************************************************************)
MaxRows == 2     \* rows of a table
MaxCols == 2     \* columns of a table made from the column pool
MaxDraws == 2    \* draws of the random generator before it repeats

vAcme == <<"A","c","m","e">>
vBolt == <<"B","o","l","t">>
vFitter == <<"F","i","t","t","e","r">>
vJohn == <<"J","o","h","n">>
vJane == <<"J","a","n","e">>
vWelfare == <<"W","e","l","f","a","r","e">>
v1 == <<"1">>
v2 == <<"2">>
vA == <<"a">>
vB == <<"b">>
vX == <<"x">>
sFoo == <<"F","o","o">>
sBar == <<"B","a","r">>
sCompany_Name == <<"C","o","m","p","a","n","y"," ","N","a","m","e">>
ts_13_1127 == <<"1","3","/","0","6","/","2","0","2","4"," ","1","1",":","2","7">>
ts_13_1300 == <<"1","3","/","0","6","/","2","0","2","4"," ","1","3",":","0","0">>
ts_13_0900 == <<"1","3","/","0","6","/","2","0","2","4"," ","0","9",":","0","0">>
ts_13_1700 == <<"1","3","/","0","6","/","2","0","2","4"," ","1","7",":","0","0">>
ts_20_0800 == <<"2","0","/","0","6","/","2","0","2","4"," ","0","8",":","0","0">>
ts_20_0900 == <<"2","0","/","0","6","/","2","0","2","4"," ","0","9",":","0","0">>
ts_garbage == <<"g","a","r","b","a","g","e">>
ts_iso_dec30 == <<"2","0","2","4","-","1","2","-","3","0"," ","0","8",":","0","0">>
ts_day_jun13 == <<"2","0","2","4","-","0","6","-","1","3">>
wk_2023_01 == <<"2","0","2","3","-","W","0","1">>
wk_2023_02 == <<"2","0","2","3","-","W","0","2">>
wk_2023_05 == <<"2","0","2","3","-","W","0","5">>
wk_2023_10 == <<"2","0","2","3","-","W","1","0">>
wk_2023_53 == <<"2","0","2","3","-","W","5","3">>
wk_2024_00 == <<"2","0","2","4","-","W","0","0">>
wk_2024_01 == <<"2","0","2","4","-","W","0","1">>
wk_2024_23 == <<"2","0","2","4","-","W","2","3">>
wk_2024_24 == <<"2","0","2","4","-","W","2","4">>
wk_not_a_week == <<"n","o","t","-","a","-","w","e","e","k">>
wk_under == <<"2","0","2","3","_","W","0","1">>
wk_2023_54 == <<"2","0","2","3","-","W","5","4">>
wk_2023_1 == <<"2","0","2","3","-","W","1">>
\* column names that are no str: the positions of a table read without header
PyInt0 == <<"int", "0">>
PyInt1 == <<"int", "1">>

\* A column of a layout: its name and the cell it holds in each kind of row.
Column(name, cells) == [name |-> name, cells |-> cells]

\* The table of the end-to-end example, with two more kinds of row: the
\* first worker a week later, and the first worker with no timestamps.
ExampleLayout == <<
    Column(sContractor,  <<vAcme, vAcme, vAcme, vAcme>>),
    Column(sRole,        <<sOperative, sOperative, sOperative, sOperative>>),
    Column(sWorker_Name, <<vJohn, vJane, vJohn, vJohn>>),
    Column(sWorker_ID,   <<v1, v2, v1, v1>>),
    Column(sIn,          <<ts_13_1127, ts_13_0900, ts_20_0800, NaN>>),
    Column(sOut,         <<ts_13_1300, ts_13_1700, ts_20_0900, NaN>>),
    Column(sArea,        <<sSite, vWelfare, sSite, sSite>>) >>

\* A time-tracker table whose In column mixes shapes: a listed format, no
\* date at all, and a shape only the default parser reads.
MixedLayout == <<
    Column(sCompany_Name, <<vAcme, vAcme, vBolt>>),
    Column(sWorker_Name,  <<vJohn, vJane, vJohn>>),
    Column(sIn,           <<ts_13_1127, ts_garbage, ts_iso_dec30>>),
    Column(sOut,          <<ts_13_1300, ts_garbage, ts_iso_dec30>>) >>

\* A table that already has the canonical columns (generic family).
CanonicalLayout == <<
    Column(sISO_Week,   <<wk_2024_23, wk_2024_23, wk_2024_24>>),
    Column(sRole,       <<sOperative, sOperative, vFitter>>),
    Column(sContractor, <<vAcme, vAcme, vBolt>>),
    Column(sName,       <<vJohn, vJane, vJohn>>) >>

\* A table read without header: its column names are positions.
HeaderlessLayout == <<
    Column(PyInt0, <<vAcme>>),
    Column(PyInt1, <<vJohn>>) >>

CuratedLayouts == {ExampleLayout, MixedLayout, CanonicalLayout}

\* A tracking export read without header: twelve columns named by position,
\* one row (contractor, person, id, start, end, location, area, minutes,
\* status, id, role, job title).
Positions == <<"0", "1", "2", "3", "4", "5", "6", "7", "8", "9", "10", "11">>
PositionalCells == <<vAcme, vJohn, v1, ts_13_1127, ts_13_1300, sSite, vWelfare,
                     v2, vA, v1, sOperative, vFitter>>
PositionalLayout ==
    [c \in DOMAIN Positions |-> Column(<<"int", Positions[c]>>, <<PositionalCells[c]>>)]

\* The columns the other layouts are made of, each with two kinds of row.
ColumnPool == {
    Column(sFoo,         <<vA, vB>>),
    Column(sBar,         <<vX, vX>>),
    Column(sIn,          <<ts_13_1127, NaN>>),
    Column(sOut,         <<ts_13_1300, ts_13_1700>>),
    Column(sWorker_Name, <<vJohn, vJane>>),
    Column(sl_company,   <<vAcme, vBolt>>),
    Column(sJob_Title,   <<sOperative, vFitter>>),
    Column(sDate,        <<ts_day_jun13, ts_garbage>>) }

SeqsUpTo(S, n) == UNION {[1..k -> S] : k \in 0..n}

\* the sequences of at most MaxCols columns of the pool, no name twice
PoolLayouts ==
    {l \in SeqsUpTo(ColumnPool, MaxCols) :
        Len(l) > 0 /\ \A i, j \in DOMAIN l : i # j => l[i].name # l[j].name}

Layouts == CuratedLayouts \cup PoolLayouts

\* the table of a layout with the given kinds of row, in order
MkTable(l, kinds) ==
    [columns |-> [c \in DOMAIN l |-> l[c].name],
     values |-> [c \in DOMAIN l |-> [r \in DOMAIN kinds |-> l[c].cells[kinds[r]]]],
     len |-> Len(kinds)]

\* the tables of the layouts, of at most MaxRows rows
LayoutTables ==
    UNION {{MkTable(l, kinds) : kinds \in SeqsUpTo(DOMAIN l[1].cells, MaxRows)} :
              l \in Layouts}

EmptyTable == [columns |-> <<>>, values |-> <<>>, len |-> 0]

\* the headerless table and the headerless tracking export, each with its
\* one row
HeaderlessTable == MkTable(HeaderlessLayout, <<1>>)
PositionalTable == MkTable(PositionalLayout, <<1>>)

\* the arguments of process_data: the tables of the layouts, the table
\* without columns and rows, the headerless tables, and an argument that
\* is no table
Tables == LayoutTables \cup {EmptyTable, HeaderlessTable, PositionalTable, NotATable}

\* the table of the end-to-end example
ExampleTable == MkTable(ExampleLayout, <<1, 2>>)

\* Tables for the resolution of columns: one or two columns of NamedPool in
\* either order, alone (generic family) or followed by a Worker Name column
\* (time-tracker family), with at most MaxCaseRows rows of two kinds.  The
\* cells of a column are its name with the kind of row appended, so that
\* every column has values of its own.
MaxCaseRows == 3
sROLE == <<"R","O","L","E">>
sPROVIDER == <<"P","R","O","V","I","D","E","R">>
sl_area == <<"a","r","e","a">>
sAREA == <<"A","R","E","A">>
sWorker_Position == <<"W","o","r","k","e","r"," ","P","o","s","i","t","i","o","n">>
sSite_Location == <<"S","i","t","e"," ","L","o","c","a","t","i","o","n">>
NamedPool == {sl_role, sROLE, sPosition, sWorker_Position,
              sl_contractor, sPROVIDER, sCompany, sCompany_Name,
              sl_area, sAREA, sLocation, sSite_Location, sFoo}
Named(name) == Column(name, <<name \o v1, name \o v2>>)
NamedLayouts ==
    LET heads == {<<Named(a)>> : a \in NamedPool}
                 \cup {<<Named(p[1]), Named(p[2])>> :
                          p \in {q \in NamedPool \X NamedPool : q[1] # q[2]}}
    IN  heads \cup {h \o <<Column(sWorker_Name, <<vJohn, vJane>>)>> : h \in heads}
\* the rows of the first kind before those of the second
KindsInOrder(n) ==
    {kinds \in SeqsUpTo(1..2, n) \ {<<>>} :
        \A i, j \in DOMAIN kinds : i < j => kinds[i] <= kinds[j]}

NamedTables ==
    UNION {{MkTable(l, kinds) : kinds \in KindsInOrder(MaxCaseRows)} :
              l \in NamedLayouts}

\* Tables with the columns In and Out, of at most MaxTimingRows rows of the
\* kinds of TimingKinds: an In cell for each listed format, for the default
\* parser alone, for the regex alone and for none of them, a missing cell,
\* a year no Timestamp holds; Out cells that parse, that do not, and missing.
\* The Out cell of a row is written in the form of its In cell.
MaxTimingRows == 2
ts_amb_1000 == <<"0","1","/","0","2","/","2","0","2","4"," ","1","0",":","0","0">>
ts_amb_1200 == <<"0","1","/","0","2","/","2","0","2","4"," ","1","2",":","0","0">>
ts_mf_1127 == <<"0","6","/","1","3","/","2","0","2","4"," ","1","1",":","2","7">>
ts_mf_1300 == <<"0","6","/","1","3","/","2","0","2","4"," ","1","3",":","0","0">>
ts_dash_1127 == <<"1","3","-","0","6","-","2","0","2","4"," ","1","1",":","2","7">>
ts_iso_112700 == <<"2","0","2","4","-","0","6","-","1","3"," ","1","1",":","2","7",":","0","0">>
ts_df_112705 == <<"1","3","/","0","6","/","2","0","2","4"," ","1","1",":","2","7",":","0","5">>
ts_mf_112705 == <<"0","6","/","1","3","/","2","0","2","4"," ","1","1",":","2","7",":","0","5">>
ts_on_13 == <<"o","n"," ","1","3","/","0","6","/","2","0","2","4">>
ts_0999 == <<"1","3","/","0","6","/","0","9","9","9"," ","1","1",":","2","7">>
TimingKinds == <<
    <<ts_13_1127, ts_13_1300>>,   <<ts_amb_1000, ts_amb_1200>>,
    <<ts_mf_1127, ts_mf_1300>>,   <<ts_dash_1127, ts_13_1300>>,
    <<ts_iso_112700, ts_13_1300>>, <<ts_df_112705, ts_13_1300>>,
    <<ts_mf_112705, ts_mf_1300>>, <<ts_day_jun13, ts_13_1300>>,
    <<ts_on_13, ts_13_1300>>,     <<ts_garbage, ts_garbage>>,
    <<NaN, NaN>>,                 <<ts_0999, ts_13_1300>>,
    <<ts_13_1127, ts_garbage>>,   <<ts_13_1127, NaN>> >>
TimingLayout == <<
    Column(sIn,  [k \in DOMAIN TimingKinds |-> TimingKinds[k][1]]),
    Column(sOut, [k \in DOMAIN TimingKinds |-> TimingKinds[k][2]]) >>
\* a first row of any kind, then rows of one kind
FirstAndRest(n) ==
    {kinds \in SeqsUpTo(DOMAIN TimingKinds, n) \ {<<>>} :
        \A i \in DOMAIN kinds : i > 2 => kinds[i] = kinds[2]}

TimingTables == {MkTable(TimingLayout, kinds) : kinds \in FirstAndRest(MaxTimingRows)}

\* Tables for the Duration: a Total Minutes column (a number, no number,
\* a missing cell) with and without In and Out, and In without Out
v30 == <<"3","0">>
MinutesLayouts == {
    <<Column(sWorker_Name, <<vJohn, vJane, vJohn>>),
      Column(sTotal_Minutes, <<v30, vX, NaN>>)>>,
    <<Column(sIn, <<ts_13_1127, ts_garbage, ts_13_1127>>),
      Column(sOut, <<ts_13_1300, ts_13_1300, ts_13_1300>>),
      Column(sTotal_Minutes, <<v30, vX, NaN>>)>>,
    <<Column(sIn, <<ts_13_1127, ts_garbage, NaN>>)>> }
MinutesTables ==
    UNION {{MkTable(l, kinds) : kinds \in SeqsUpTo(1..3, MaxTimingRows) \ {<<>>}} :
              l \in MinutesLayouts}

\* Tables for the PersonIdentifier: a Worker ID column beside each kind of
\* identity column (Worker Name, Bio ID, a name of person_cols); workers of
\* one name and two ids, and names and ids with an underscore in them
vA_1 == <<"a","_","1">>
v1_2 == <<"1","_","2">>
PersonLayouts == {
    <<Column(sWorker_Name, <<vJohn, vJohn, vA_1, vA>>),
      Column(sWorker_ID, <<v1, v2, v2, v1_2>>)>>,
    <<Column(sIn, <<ts_13_1127, ts_13_1127>>),
      Column(sName, <<vJohn, vJohn>>),
      Column(sWorker_ID, <<v1, v2>>)>>,
    <<Column(sIn, <<ts_13_1127, ts_13_1127>>),
      Column(sBio_ID, <<vJohn, vJohn>>),
      Column(sWorker_ID, <<v1, v2>>)>>,
    <<Column(sIn, <<ts_13_1127, ts_13_1127>>),
      Column(sName, <<vJohn, vJane>>)>> }
PersonTables ==
    UNION {{MkTable(l, kinds) :
               kinds \in SeqsUpTo(DOMAIN l[1].cells, MaxTimingRows) \ {<<>>}} :
              l \in PersonLayouts}

\* the arguments of process_data in the specification of the cases
CaseTables == NamedTables \cup TimingTables \cup MinutesTables \cup PersonTables

\* the draws of np.random.randint the model tells apart
DrawSeqs == [1..MaxDraws -> RandInt]

WeekLabels == {wk_2023_01, wk_2023_02, wk_2023_05, wk_2023_10, wk_2023_53,
               wk_2024_00, wk_2024_01, wk_not_a_week, sUnknownWeek, wk_under,
               wk_2023_54, wk_2023_1, PyInt0}

\* The arguments of extract_year_week: dates written day first and year
\* first with either separator, with days and months that exist and that
\* do not, alone and inside a longer string; strings without a date; values
\* that are not str.
DayTexts == {<<"1">>, <<"1","3">>, <<"2","9">>, <<"3","1">>, <<"3","2">>, <<"0","0">>}
MonthTexts == {<<"6">>, <<"0","2">>, <<"1","2">>, <<"1","3">>}
YearTexts == {<<"2","0","2","4">>, <<"2","0","2","3">>, <<"0","0","0","0">>}
DateSeps == {"/", "-"}
DateSuffixes == {<<>>, <<" ","1","1",":","2","7">>}
DatePrefixes == {<<>>, <<"o","n"," ">>}

DayFirstTexts ==
    {p \o d \o <<a>> \o m \o <<b>> \o y \o x :
        p \in DatePrefixes, d \in DayTexts, a \in DateSeps, m \in MonthTexts,
        b \in DateSeps, y \in YearTexts, x \in DateSuffixes}

YearFirstTexts ==
    {y \o <<a>> \o m \o <<a>> \o d \o x :
        y \in YearTexts, a \in DateSeps, m \in MonthTexts, d \in DayTexts,
        x \in DateSuffixes}

DateArguments ==
    DayFirstTexts \cup YearFirstTexts
    \cup {ts_garbage, <<>>, <<"1","3","/","0","6">>, wk_2024_24, NaN, PyInt0}

\* The arguments of parse_iso_week: a year part and a week part joined as
\* "-W", "_W", a blank or a dash; the year with four digits, with a leading
\* zero, or with a letter in it; the week in and out of the range; strings
\* with a letter W elsewhere; strings without numbers; values that are not
\* str.
YearParts == {<<"2","0","2","3">>, <<"2","0","2","4">>, <<"0","9","9","9">>,
              <<"2","0","x","3">>}
WeekParts == {<<"0","0">>, <<"0","1">>, <<"1">>, <<"0","5">>, <<"2","3">>,
              <<"5","2">>, <<"5","3">>, <<"5","4">>, <<"9","9">>, <<"x","y">>}
YearWeekJoints == {sDashW, sUnderW, <<" ">>, <<"-">>}
wk_2023_99 == <<"2","0","2","3","-","W","9","9">>
wk_Week_5_of_2023 == <<"W","e","e","k"," ","2","0","2","3"," ","0","5">>
wk_week_5_of_2023 == <<"w","e","e","k"," ","2","0","2","3"," ","0","5">>

WeekArguments ==
    {y \o j \o w : y \in YearParts, j \in YearWeekJoints, w \in WeekParts}
    \cup {wk_not_a_week, sUnknownWeek, <<>>, wk_Week_5_of_2023,
          wk_week_5_of_2023, NaN, PyInt0}

(***************************************************************************)
(* app.py: the session state, the callbacks and the script                 *)
(*                                                                         *)
(* st.session_state is the function of its keys: a key is in the session   *)
(* when it is in the domain.  A value that may be Python's None is held    *)
(* as None or Some(value).                                                 *)
(***************************************************************************)
Has(s, k) == k \in DOMAIN s
Put(s, k, v) == [x \in DOMAIN s \cup {k} |-> IF x = k THEN v ELSE s[x]]
DelAll(s, keys) == [x \in DOMAIN s \ keys |-> s[x]]
PutDefault(s, k, v) == IF Has(s, k) THEN s ELSE Put(s, k, v)

\* the session of a browser that has not run the script yet
NewSession == [x \in {} |-> None]

\* Initialize session state for contractor selections
InitSessionState(s) ==
    LET s1 == PutDefault(s, "step", 1)
        s2 == PutDefault(s1, "selected_contractors", <<>>)
        s3 == PutDefault(s2, "selected_contractor", None)
        s4 == PutDefault(s3, "time_analysis_contractor", None)
        s5 == PutDefault(s4, "role_dist_contractor", None)
        s6 == PutDefault(s5, "role_colors", NewSession)
    IN  PutDefault(s6, "allow_multiple_selection", TRUE)

\* the session after the first run of the script, nothing uploaded
InitialSession == InitSessionState(NewSession)

prev_step(s) == Put(s, "step", s.step - 1)

next_step(s) == Put(s, "step", s.step + 1)

reset_app(s) ==
    DelAll(Put(s, "step", 1),
           {"data", "file_name", "raw_data", "selected_contractor",
            "selected_contractors", "time_analysis_contractor",
            "role_dist_contractor", "allow_multiple_selection"})

\* the truth value of a contractor or None
Truthy(c) == c # None /\ c[1] # <<>>

\* the last of a selection, None of an empty one
LastSelected(selected) ==
    IF Len(selected) > 0 THEN Some(selected[Len(selected)]) ELSE None

\* selected[0] if selected else None
FirstSelected(selected) ==
    IF Len(selected) > 0 THEN Some(selected[1]) ELSE None

\* Sync all contractor selections
SyncSelections(s) ==
    Put(Put(s, "time_analysis_contractor", s.selected_contractor),
        "role_dist_contractor", s.selected_contractor)

\* update_selected_contractor(): reading a widget key that is not in the
\* session raises before anything is assigned
update_selected_contractor(s) ==
    IF s.allow_multiple_selection
    THEN IF ~Has(s, "contractor_multiselect") THEN s
         ELSE LET s1 == Put(s, "selected_contractors", s.contractor_multiselect)
              IN  SyncSelections(Put(s1, "selected_contractor",
                                     FirstSelected(s1.selected_contractors)))
    ELSE IF ~Has(s, "contractor_select") THEN s
         ELSE LET s1 == Put(s, "selected_contractor", s.contractor_select)
              IN  SyncSelections(Put(s1, "selected_contractors",
                                     IF Truthy(s1.selected_contractor)
                                     THEN <<s1.selected_contractor[1]>> ELSE <<>>))

toggle_multiple_selection(s) ==
    LET s1 == Put(s, "allow_multiple_selection", ~s.allow_multiple_selection)
    IN  IF ~s1.allow_multiple_selection /\ Len(s1.selected_contractors) > 0
        THEN Put(s1, "selected_contractor", Some(s1.selected_contractors[1]))
        ELSE IF Truthy(s1.selected_contractor)
             THEN Put(s1, "selected_contractors", <<s1.selected_contractor[1]>>)
             ELSE s1

\* Series.unique().tolist(): the values in order of first appearance
RECURSIVE Unique(_)
Unique(col) ==
    IF Len(col) = 0 THEN <<>>
    ELSE LET init == Unique(SubSeq(col, 1, Len(col) - 1))
             last == col[Len(col)]
         IN  IF last \in Range(init) THEN init ELSE Append(init, last)

\* the aggregated table's columns
RolesOf(data) == Unique([g \in DOMAIN data |-> data[g].Role])
ContractorsOf(data) == Unique([g \in DOMAIN data |-> data[g].Contractor])

\* select_contractor(location, key_prefix): selected is what the multiselect
\* returns, its default on the first run and the user's choice afterwards
select_contractor(s, selected) ==
    LET contractors == ContractorsOf(s.data)
        s1 == IF s.selected_contractor = None
                 \/ s.selected_contractor[1] \notin Range(contractors)
              THEN Put(Put(s, "selected_contractor", Some(contractors[1])),
                       "selected_contractors", <<contractors[1]>>)
              ELSE s
        s2 == Put(s1, "selected_contractors", selected)
    IN  IF Len(contractors) = 0 THEN s
        ELSE SyncSelections(Put(s2, "selected_contractor", FirstSelected(selected)))

\* what a multiselect over the options can return: options the user has
\* picked, each once, in the order of picking
Selections(options) ==
    {sel \in SeqsUpTo(Range(options), Len(options)) :
        \A i, j \in DOMAIN sel : i # j => sel[i] # sel[j]}

\* get_color_palette()
get_color_palette ==
    <<"#BB86FC", "#03DAC6", "#CF6679", "#4a86e8", "#ff9e0b",
      "#00B8D9", "#36B37E", "#FF5630", "#8777D9", "#6554C0">>

\* the session after get_consistent_role_colors(df); the function returns
\* the role_colors of this session.  The palette is repeated until it has
\* a colour for every role, then cut.
get_consistent_role_colors(s, data) ==
    IF ~Has(s, "role_colors") \/ DOMAIN s.role_colors = {}
    THEN LET all_roles == RolesOf(data)
             palette == [i \in DOMAIN all_roles |->
                            get_color_palette[((i - 1) % Len(get_color_palette)) + 1]]
         IN  Put(s, "role_colors",
                 [role \in Range(all_roles) |->
                     palette[CHOOSE i \in DOMAIN all_roles : all_roles[i] = role]])
    ELSE s

\* the tokens of a person-like column in calculate_unique_workers
unique_worker_tokens == <<sl_name, sl_worker, sl_person, sl_employee>>

\* calculate_unique_workers(raw_df): None when it raises
calculate_unique_workers(raw_df) ==
    IF HasCol(raw_df, sWorker_Name)
    THEN IF HasCol(raw_df, sWorker_ID)
         THEN IF FloatColumn(Col(raw_df, sWorker_Name)) THEN None
              ELSE Some(NUnique([i \in 1..raw_df.len |->
                           NameWithId(Col(raw_df, sWorker_Name)[i],
                                      Col(raw_df, sWorker_ID)[i])]))
         ELSE Some(NUnique(Col(raw_df, sWorker_Name)))
    ELSE IF HasCol(raw_df, sBio_ID) THEN Some(NUnique(Col(raw_df, sBio_ID)))
         ELSE IF \E c \in DOMAIN raw_df.columns : ~IsStr(raw_df.columns[c]) THEN None
              ELSE LET person_like ==
                           {c \in DOMAIN raw_df.columns :
                               LowerContainsAny(StrLower(raw_df.columns[c]),
                                                unique_worker_tokens)}
                   IN  IF person_like # {}
                       THEN Some(NUnique(raw_df.values[MinOf(person_like)]))
                       ELSE Some(raw_df.len)

\* ensure_required_columns(df): the table process_data returns has the
\* four required columns, so no column is added
ensure_required_columns(data) == data

(***************************************************************************)
(* The files a user uploads                                                *)
(***************************************************************************)
fn_a == <<"a",".","c","s","v">>
fn_ab == <<"a","b",".","c","s","v">>
fn_empty == <<"e","m","p","t","y",".","c","s","v">>
fn_bad == <<"b","a","d",".","c","s","v">>
fn_raw == <<"r","a","w",".","c","s","v">>

\* a file: its name and the table read_csv gives, None when every attempt
\* to read it raises
File(name, table) == [name |-> name, df |-> table]

\* one role and contractor, two roles and contractors, a header without
\* rows, a file that cannot be read, a file read without header
UploadedFiles == {
    File(fn_a, Some(MkTable(CanonicalLayout, <<1>>))),
    File(fn_ab, Some(MkTable(CanonicalLayout, <<1, 3>>))),
    File(fn_empty, Some(MkTable(CanonicalLayout, <<>>))),
    File(fn_bad, None),
    File(fn_raw, Some(HeaderlessTable)) }

\* the random numbers of the synthetic dataset in the runs of the script:
\* all lowest or all highest
ScriptDraws == {d \in DrawSeqs : \E n \in {SyntheticLow, SyntheticHigh} :
                                    \A i \in DOMAIN d : d[i] = n}

(***************************************************************************)
(* One run of the script: the session it leaves and the buttons it shows   *)
(***************************************************************************)
Shown(s, buttons) == [session |-> s, buttons |-> buttons]

\* Step 1 with a file in the uploader: raw is the table read from it once
\* process_data has returned, processed what process_data has returned;
\* display_key_facts asks for the colours of the roles.
UploadRun(s, file, raw, processed) ==
    LET s1 == Put(s, "file_name", file.name)
        s2 == Put(s1, "raw_data", raw)
        s3 == Put(s2, "data", ensure_required_columns(processed))
        count == calculate_unique_workers(raw)
        s4 == Put(s3, "unique_workers", count[1])
    IN  IF file.df = None THEN Shown(s1, {})
        ELSE IF count = None THEN Shown(s3, {})
             ELSE Shown(get_consistent_role_colors(s4, s3.data), {"continue"})

\* Step 2.  tab1 and tab3 are what the two multiselects return.
VisualizationRun(s, tab1, tab3) ==
    IF ~Has(s, "data") \/ ~Has(s, "raw_data") THEN Shown(s, {"go_to_upload"})
    ELSE LET s1 == get_consistent_role_colors(s, s.data)
             s2 == select_contractor(s1, tab1)
             s3 == IF Len(ContractorsOf(s.data)) < 2 THEN s2
                   ELSE select_contractor(s2, tab3)
         IN  Shown(s3, {"load_new_file"})

\* the script from its first line, with what the widgets hold: uploaded is
\* None when the uploader is empty and what the handling of its file leaves
\* otherwise
ScriptRun(session_, uploaded, tab1, tab3) ==
    LET s == InitSessionState(session_)
    IN  IF s.step = 1
        THEN IF uploaded = None THEN Shown(s, {}) ELSE uploaded[1]
        ELSE IF s.step = 2 THEN VisualizationRun(s, tab1, tab3)
             ELSE Shown(s, {})

\* the on_click of a button
OnClick(button, s) ==
    CASE button = "continue" -> next_step(s)
      [] button = "load_new_file" -> reset_app(s)
      [] button = "go_to_upload" -> Put(s, "step", 1)

(***************************************************************************)
(* app.py: the page in the browser                                         *)
(***************************************************************************)
\* the session and the page before anything is uploaded
FirstPage == [uploader |-> None, buttons |-> {}, last_call |-> "script"]

AppIdle == session = InitialSession /\ page = FirstPage

(***************************************************************************)
(* The calls as state machines                                             *)
(***************************************************************************)
\* process_data(df): the caller has a table
Init ==
    /\ AppIdle
    /\ pc = "input"
    /\ df \in Tables
    /\ frame = Copy(EmptyTable)
    /\ result = <<>>
    /\ weeks = <<>> /\ sorted_weeks = <<>> /\ date_str = <<>> /\ period = <<>>
    /\ week_label = <<>> /\ first_day = <<>>

\* process_data up to the grouping: the copy, the family, the columns.
\* inferFormat is the installed pandas' way of reading dates without format.
NormalizeCall ==
    /\ pc = "input"
    /\ \E inferFormat \in BOOLEAN : frame' = Normalize(df, inferFormat)
    /\ pc' = "normalized"
    /\ df' = CallerTable(df, frame')
    /\ UNCHANGED <<result, weeks, sorted_weeks, date_str, period, week_label, first_day>>
    /\ UNCHANGED appVars

\* process_data from the grouping to the return of the try block
ReturnGrouped ==
    /\ pc = "normalized"
    /\ ~frame.raised
    /\ result' = Aggregate(frame, <<>>)
    /\ pc' = "returned"
    /\ UNCHANGED <<df, frame, weeks, sorted_weeks, date_str, period, week_label, first_day>>
    /\ UNCHANGED appVars

\* process_data: the outer except clause and its return
ReturnSynthetic ==
    /\ pc = "normalized"
    /\ frame.raised
    /\ \E draws \in DrawSeqs : result' = Aggregate(frame, draws)
    /\ pc' = "returned"
    /\ UNCHANGED <<df, frame, weeks, sorted_weeks, date_str, period, week_label, first_day>>
    /\ UNCHANGED appVars

Next == NormalizeCall \/ ReturnGrouped \/ ReturnSynthetic

Spec == Init /\ [][Next]_vars

\* sort_iso_weeks(weeks)
InitWeeks ==
    /\ AppIdle
    /\ pc = "input"
    /\ weeks \in SeqsUpTo(WeekLabels, MaxWeeks)
    /\ sorted_weeks = <<>>
    /\ df = EmptyTable /\ frame = Copy(EmptyTable) /\ result = <<>>
    /\ date_str = <<>> /\ period = <<>>
    /\ week_label = <<>> /\ first_day = <<>>

SortCall ==
    /\ pc = "input"
    /\ sorted_weeks' = sort_iso_weeks(weeks)
    /\ pc' = "returned"
    /\ UNCHANGED <<df, frame, result, weeks, date_str, period, week_label, first_day>>
    /\ UNCHANGED appVars

NextWeeks == SortCall

SpecWeeks == InitWeeks /\ [][NextWeeks]_vars

\* extract_year_week(date_str)
InitExtract ==
    /\ AppIdle
    /\ pc = "input"
    /\ date_str \in DateArguments
    /\ period = <<>>
    /\ df = EmptyTable /\ frame = Copy(EmptyTable) /\ result = <<>>
    /\ weeks = <<>> /\ sorted_weeks = <<>>
    /\ week_label = <<>> /\ first_day = <<>>

ExtractCall ==
    /\ pc = "input"
    /\ period' = extract_year_week(date_str)
    /\ pc' = "returned"
    /\ UNCHANGED <<df, frame, result, weeks, sorted_weeks, date_str, week_label, first_day>>
    /\ UNCHANGED appVars

NextExtract == ExtractCall

SpecExtract == InitExtract /\ [][NextExtract]_vars

\* parse_iso_week(iso_week_str)
InitParse ==
    /\ AppIdle
    /\ pc = "input"
    /\ week_label \in WeekArguments
    /\ first_day = <<>>
    /\ df = EmptyTable /\ frame = Copy(EmptyTable) /\ result = <<>>
    /\ weeks = <<>> /\ sorted_weeks = <<>>
    /\ date_str = <<>> /\ period = <<>>

ParseCall ==
    /\ pc = "input"
    /\ first_day' = parse_iso_week(week_label)
    /\ pc' = "returned"
    /\ UNCHANGED <<df, frame, result, weeks, sorted_weeks, date_str, period, week_label>>
    /\ UNCHANGED appVars

NextParse == ParseCall

SpecParse == InitParse /\ [][NextParse]_vars

\* process_data(df) for the tables of the cases
InitCases ==
    /\ AppIdle
    /\ pc = "input"
    /\ df \in CaseTables
    /\ frame = Copy(EmptyTable)
    /\ result = <<>>
    /\ weeks = <<>> /\ sorted_weeks = <<>> /\ date_str = <<>> /\ period = <<>>
    /\ week_label = <<>> /\ first_day = <<>>

\* no table of the cases makes process_data raise: the try block returns
NextCases == NormalizeCall \/ ReturnGrouped

SpecCases == InitCases /\ [][NextCases]_vars

(***************************************************************************)
(* The app as a state machine                                              *)
(***************************************************************************)
InitApp ==
    /\ AppIdle
    /\ pc = "input"
    /\ df = EmptyTable /\ frame = Copy(EmptyTable) /\ result = <<>>
    /\ weeks = <<>> /\ sorted_weeks = <<>> /\ date_str = <<>> /\ period = <<>>
    /\ week_label = <<>> /\ first_day = <<>>

\* the contractors a hypothetical widget of update_selected_contractor offers
WidgetContractors == <<vAcme, vBolt>>

\* the user puts a file into the uploader of step 1, or takes it out, and
\* the script runs; a file that can be read goes through process_data
ChooseFile ==
    /\ session.step = 1
    /\ \E uploader \in {None} \cup {Some(f) : f \in UploadedFiles} :
          LET shown(run) ==
                  /\ session' = run.session
                  /\ page' = [uploader |-> uploader, buttons |-> run.buttons,
                              last_call |-> "upload"]
          IN  IF uploader # None /\ uploader[1].df # None
              THEN /\ \E inferFormat \in BOOLEAN :
                         frame' = Normalize(uploader[1].df[1], inferFormat)
                   /\ df' = CallerTable(uploader[1].df[1], frame')
                   /\ \E draws \in IF frame'.raised THEN ScriptDraws ELSE {<<>>} :
                         result' = Aggregate(frame', draws)
                   /\ pc' = "returned"
                   /\ shown(ScriptRun(session,
                                      Some(UploadRun(InitSessionState(session),
                                                     uploader[1], df', result')),
                                      <<>>, <<>>))
                   /\ UNCHANGED <<weeks, sorted_weeks, date_str, period,
                                  week_label, first_day>>
              ELSE /\ shown(ScriptRun(session,
                                      IF uploader = None THEN None
                                      ELSE Some(UploadRun(InitSessionState(session),
                                                          uploader[1], df, result)),
                                      <<>>, <<>>))
                   /\ UNCHANGED callVars

\* the user clicks a button of the page: its on_click, then the script
ClickButton ==
    /\ \E button \in page.buttons :
          LET shown(run) ==
                  /\ session' = run.session
                  /\ page' = [uploader |-> None, buttons |-> run.buttons,
                              last_call |-> button]
              clicked(s) ==
                  \E tab1, tab3 \in Selections(IF Has(s, "data")
                                                THEN ContractorsOf(s.data) ELSE <<>>) :
                     shown(ScriptRun(s, None, tab1, tab3))
          IN  clicked(OnClick(button, session))
    /\ UNCHANGED callVars

\* the user changes a multiselect of step 2 and the script runs:
\* select_contractor stores what the widgets return
ChangeSelection ==
    /\ session.step = 2 /\ Has(session, "data") /\ Has(session, "raw_data")
    /\ \E tab1, tab3 \in Selections(ContractorsOf(session.data)) :
          LET shown(run) ==
                  /\ session' = run.session
                  /\ page' = [uploader |-> None, buttons |-> run.buttons,
                              last_call |-> "select_contractor"]
          IN  shown(ScriptRun(session, None, tab1, tab3))
    /\ UNCHANGED callVars

\* a call of toggle_multiple_selection(), on the page that has the
\* contractor widgets
ToggleCall ==
    /\ session.step = 2
    /\ session' = toggle_multiple_selection(session)
    /\ page' = [page EXCEPT !.last_call = "toggle_multiple_selection"]
    /\ UNCHANGED callVars

\* the keys of the widgets update_selected_contractor reads
WidgetKeys == {"contractor_multiselect", "contractor_select"}

\* the session with the two widget keys: None for a key no widget has made
WithWidgets(s, multi, single) ==
    LET s1 == IF multi = None THEN s ELSE Put(s, "contractor_multiselect", multi[1])
    IN  IF single = None THEN s1 ELSE Put(s1, "contractor_select", single[1])

\* a call of update_selected_contractor(), the widget keys absent as in
\* the app or holding what widgets over the contractors would return; the
\* state of a widget ends with the call
UpdateCall ==
    /\ session.step = 2
    /\ \E multi \in {None} \cup {Some(sel) : sel \in Selections(WidgetContractors)},
          single \in {None, Some(None)}
                        \cup {Some(Some(c)) : c \in Range(WidgetContractors)} :
          session' = DelAll(update_selected_contractor(
                                WithWidgets(session, multi, single)), WidgetKeys)
    /\ page' = [page EXCEPT !.last_call = "update_selected_contractor"]
    /\ UNCHANGED callVars

NextApp == ChooseFile \/ ClickButton \/ ChangeSelection \/ ToggleCall \/ UpdateCall

SpecApp == InitApp /\ [][NextApp]_vars


(***************************************************************************)
(* Properties of sort_iso_weeks (checked under SpecWeeks)                  *)
(***************************************************************************)
Count(seq, x) == Cardinality({i \in DOMAIN seq : seq[i] = x})
Parses(label) == parse_iso_week(label) # None

\* C3: sort_iso_weeks returns a permutation of exactly the labels that
\* parse_iso_week reads, each as often as it occurs in the argument, in
\* non-decreasing order of their dates; a label that does not parse is
\* absent; ["2023-W01","not-a-week","2023-W02"] gives ["2023-W01","2023-W02"].
C3_SortKeepsParseableInOrder ==
    pc = "returned" =>
        /\ \A l \in Range(weeks) \cup Range(sorted_weeks) :
              Count(sorted_weeks, l) = IF Parses(l) THEN Count(weeks, l) ELSE 0
        /\ \A i, j \in DOMAIN sorted_weeks :
              i < j => parse_iso_week(sorted_weeks[i])[1] <= parse_iso_week(sorted_weeks[j])[1]
        /\ (weeks = <<wk_2023_01, wk_not_a_week, wk_2023_02>>
              => sorted_weeks = <<wk_2023_01, wk_2023_02>>)

\* the garbage example has been sorted
C3_Witness ==
    /\ pc = "returned"
    /\ weeks = <<wk_2023_01, wk_not_a_week, wk_2023_02>>
    /\ Len(sorted_weeks) = 2

\* a label "<year>-W<2-digit week>", as [year, week]; None for another string
CanonicalLabel(l) ==
    IF IsStr(l) /\ Len(l) = 8 /\ AllDigits(SubSeq(l, 1, 4))
       /\ SubSeq(l, 5, 6) = sDashW /\ AllDigits(SubSeq(l, 7, 8))
    THEN Some([year |-> DigitsValue(SubSeq(l, 1, 4)), week |-> DigitsValue(SubSeq(l, 7, 8))])
    ELSE None

\* the days (ordinals) whose label strftime('%Y-W%U') is the label yw
LabelDays(yw) ==
    {o \in (DaysBeforeYear(yw.year) + 1)..DaysBeforeYear(yw.year + 1) :
        WeekOfYearSunday(o - DaysBeforeYear(yw.year) - 1, Weekday(o)) = yw.week}

\* both labels are emitted for real dates, and every date of a is earlier
\* than every date of b
AllDatesEarlier(a, b) ==
    /\ CanonicalLabel(a) # None /\ CanonicalLabel(b) # None
    /\ LabelDays(CanonicalLabel(a)[1]) # {}
    /\ LabelDays(CanonicalLabel(b)[1]) # {}
    /\ \A x \in LabelDays(CanonicalLabel(a)[1]) :
          \A y \in LabelDays(CanonicalLabel(b)[1]) : x < y

\* C4: sort_iso_weeks orders the labels the normaliser emits
\* chronologically: a label whose dates are all earlier than those of
\* another one is never placed after it, also across a year boundary; and
\* ["2023-W05","2023-W01","2023-W10"] gives ["2023-W01","2023-W05","2023-W10"].
C4_SortIsChronological ==
    pc = "returned" =>
        /\ \A i, j \in DOMAIN sorted_weeks :
              i < j => ~AllDatesEarlier(sorted_weeks[j], sorted_weeks[i])
        /\ (weeks = <<wk_2023_05, wk_2023_01, wk_2023_10>>
              => sorted_weeks = <<wk_2023_01, wk_2023_05, wk_2023_10>>)


(***************************************************************************)
(* Properties of process_data (checked under Spec)                         *)
(***************************************************************************)
Normalized == pc \in {"normalized", "returned"} /\ ~frame.raised
Returned == pc = "returned" /\ ~frame.raised

\* the frame with the PersonIdentifier of its rows, resolved as the
\* time-tracker family resolves it when the family at hand has not
WithPerson(t) == IF HasCol(t, sPersonIdentifier) THEN t ELSE PersonStep(t)

\* the number of distinct PersonIdentifier values among the rows of a group
DistinctPersons(t, key) ==
    Cardinality({Col(WithPerson(t), sPersonIdentifier)[i] :
                    i \in {j \in 1..t.len : Key3(t, j) = key}})

RecordKey(r) == <<r.ISO_Week, r.Role, r.Contractor>>
GroupRows(t, key) == {i \in 1..t.len : Key3(t, i) = key}

\* C1: in either family each returned row that is the group of some input
\* rows has Number of Workers equal to the number of distinct
\* PersonIdentifier values among the rows of its group: a worker on several
\* rows of the group counts once.
C1_CountsDistinctPersons ==
    Returned =>
        \A g \in DOMAIN result :
            GroupRows(frame, RecordKey(result[g])) # {} =>
                result[g].Number_of_Workers = DistinctPersons(frame, RecordKey(result[g]))

\* C2: the two rows of the end-to-end example (same contractor and role, two
\* workers, In on 13/06/2024) give exactly one record,
\* {"2024-W24", "Operative", "Acme", 2}.
C2_EndToEndExample ==
    (pc = "returned" /\ df = ExampleTable) =>
        result = <<MkRecord(wk_2024_24, sOperative, vAcme, 2)>>

\* C5: every row of a normalised table has a Period, a label or
\* "Unknown Week", never a missing value, and so every row is in a group of
\* the returned table.
C5_PeriodAlwaysPopulated ==
    /\ Normalized => \A i \in 1..frame.len : ~IsNull(Col(frame, sISO_Week)[i])
    /\ Returned =>
          \A i \in 1..frame.len :
              \E g \in DOMAIN result : RecordKey(result[g]) = Key3(frame, i)

\* C6: every row of every returned table (grouped, default, synthetic) has
\* Number of Workers >= 1.
C6_WorkerCountPositive ==
    pc = "returned" => \A g \in DOMAIN result : result[g].Number_of_Workers >= 1

\* a group of two workers has been returned
C6_Witness ==
    /\ pc = "returned"
    /\ ~frame.raised
    /\ time_format(frame)
    /\ frame.len = 2
    /\ Len(result) = 1
    /\ result[1].Number_of_Workers = 2

\* one row per counted worker of an aggregated table, the workers of a
\* group numbered from 1
RECURSIVE ExpandRows(_)
ExpandRows(agg) ==
    IF Len(agg) = 0 THEN <<>>
    ELSE [k \in 1..Head(agg).Number_of_Workers |->
             <<Head(agg).ISO_Week, Head(agg).Role, Head(agg).Contractor, NatStr(k)>>]
         \o ExpandRows(Tail(agg))

Expand(agg) ==
    LET rows == ExpandRows(agg)
    IN  [columns |-> <<sISO_Week, sRole, sContractor, sPersonIdentifier>>,
         values |-> [c \in 1..4 |-> [r \in DOMAIN rows |-> rows[r][c]]],
         len |-> Len(rows),
         raised |-> FALSE]

\* C7: aggregation is idempotent: the aggregate of a normalised table,
\* expanded into one row per counted worker and aggregated again, is the
\* same table.
C7_AggregationIdempotent ==
    (Normalized /\ time_format(frame)) =>
        GroupTimeTracker(Expand(GroupTimeTracker(frame))) = GroupTimeTracker(frame)

\* a table of two groups has been normalised
C7_Witness ==
    /\ Normalized /\ time_format(frame)
    /\ Len(GroupTimeTracker(frame)) = 2
    /\ frame.len = 2

\* some column name holds a token of the list, whatever the case
NameRecognised(t, tokens) ==
    \E i \in DOMAIN t.columns :
        IsStr(t.columns[i]) /\ LowerContainsAny(StrLower(t.columns[i]), tokens)

AllCells(t, name, v) == HasCol(t, name) /\ \A i \in 1..t.len : Col(t, name)[i] = v

StrNames(t) == IsTable(t) /\ \A i \in DOMAIN t.columns : IsStr(t.columns[i])

TimestampColumn(t) ==
    IF time_format(t)
    THEN IF HasCol(t, sIn) /\ HasCol(t, sOut) THEN ColIndex(t, sIn)
         ELSE IF StrNames(t) /\ DateCols(t) # {} THEN MinOf(DateCols(t)) ELSE 0
    ELSE IF StrNames(t) /\ GenericDateCols(t) # {} THEN MinOf(GenericDateCols(t)) ELSE 0

\* the calendar date a timestamp cell states, read day first or year first
CellDate(v) ==
    IF ~IsStr(v) THEN None
    ELSE LET dmy == SearchDayMonthYear(v)
             ymd == SearchYearMonthDay(v)
             d == IF dmy # None
                  THEN MkDate(DigitsValue(dmy[1][3]), DigitsValue(dmy[1][2]), DigitsValue(dmy[1][1]))
                  ELSE IF ymd # None
                       THEN MkDate(DigitsValue(ymd[1][1]), DigitsValue(ymd[1][2]), DigitsValue(ymd[1][3]))
                       ELSE MkDate(0, 0, 0)
         IN  IF ValidDate(d.year, d.month, d.day) THEN Some(d) ELSE None

\* the label of a date by the Sunday-start week of the year
SundayLabel(d) == NatStr(d.year) \o sYearW \o Pad2(WeekU(d))

(***************************************************************************)
(* Properties of extract_year_week (checked under SpecExtract)             *)
(***************************************************************************)
\* C9: extract_year_week returns for every argument, a str or not, a label:
\* "Unknown Week" or "<4 digits>-W<2 digits>"; it returns "Unknown Week" for
\* a value that is not a str and for a string that states no day of the
\* calendar (no date at all, or an impossible day or month), as for
\* "garbage", and a week label for a string that states one.
C9_ExtractNeverFails ==
    pc = "returned" =>
        /\ period = sUnknownWeek \/ CanonicalLabel(period) # None
        /\ CellDate(date_str) = None => period = sUnknownWeek
        /\ CellDate(date_str) # None => CanonicalLabel(period) # None
        /\ date_str = ts_garbage => period = sUnknownWeek

\* a string with the shape of a date whose day does not exist in its month
\* has been read
C9_Witness ==
    /\ pc = "returned"
    /\ IsStr(date_str)
    /\ SearchDayMonthYear(date_str) # None
    /\ DigitsValue(SearchDayMonthYear(date_str)[1][1]) = 31
    /\ DigitsValue(SearchDayMonthYear(date_str)[1][2]) = 2
    /\ DigitsValue(SearchDayMonthYear(date_str)[1][3]) = 2024
    /\ period = sUnknownWeek

(***************************************************************************)
(* One date, one label (checked under Spec)                                *)
(***************************************************************************)
\* C10: whenever a date is obtained for a row, by whichever strategy, its
\* Period is "<year>-W<week>" with the Sunday-start week of the year, so one
\* date has one label on every path.
C10_OneLabelPerDate ==
    (Normalized /\ ~HasCol(df, sISO_Week) /\ TimestampColumn(df) # 0) =>
        \A i \in 1..frame.len :
            LET cell == df.values[TimestampColumn(df)][i]
                label == Col(frame, sISO_Week)[i]
            IN  (CellDate(cell) # None /\ ~IsNull(label) /\ label # sUnknownWeek)
                    => label = SundayLabel(CellDate(cell)[1])


(***************************************************************************)
(* The fallbacks of process_data (specification Spec)                      *)
(***************************************************************************)
\* the argument is no table, or a table without rows or without columns
NoData(t) == ~IsTable(t) \/ t.len = 0 \/ Len(t.columns) = 0

\* C11: for an argument that is no table (None) and for an empty table (no
\* rows, or no columns) process_data returns a table that is not empty and
\* whose Contractor values are all among "Contractor A", "Contractor B",
\* "Contractor C": the synthetic dataset.
C11_TotalFailureFallback ==
    (pc = "returned" /\ NoData(df)) =>
        /\ Len(result) > 0
        /\ \A g \in DOMAIN result :
              result[g].Contractor \in Range(synthetic_contractors)

\* no row of the frame is left to aggregate: it has no rows, or every row
\* lacks a part of its key
NothingToGroup(t) == \A i \in 1..t.len : HasNullKey(t, i)

\* C12: in either family the table the grouping returns is never empty, and
\* when no row is left to aggregate it is exactly the one fallback record
\* {"Unknown Week", "Worker", "Unknown Contractor", 1}.
C12_FallbackRecord ==
    Returned =>
        /\ Len(result) > 0
        /\ NothingToGroup(frame) => result = DefaultResult

(***************************************************************************)
(* Properties of parse_iso_week (specification SpecParse)                  *)
(***************************************************************************)
\* the two parts of a string around its one "-W", None for another string
DashWParts(s) ==
    IF IsStr(s) /\ Len(Split(s, sDashW)) = 2 THEN Some(Split(s, sDashW)) ELSE None

\* C13: parse_iso_week returns for every argument a date or None; it
\* returns None for a value that is not a str, for a string of none of the
\* shapes (no "-W", no "_W", no four digits with a digit after them), for a
\* year or a week that is no integer, and for a week number above 53, as in
\* "2023-W54" and "2023-W99".
C13_ParseNeverFails ==
    pc = "returned" =>
        /\ first_day = None \/ (Len(first_day) = 1 /\ first_day[1] \in Nat)
        /\ ~IsStr(week_label) => first_day = None
        /\ (IsStr(week_label) /\ ~Contains(week_label, sDashW)
            /\ ~Contains(week_label, sUnderW) /\ SearchYearWeek(week_label) = None)
              => first_day = None
        /\ (DashWParts(week_label) # None
            /\ \E k \in 1..2 : PyIntOfStr(DashWParts(week_label)[1][k]) = None)
              => first_day = None
        /\ (CanonicalLabel(week_label) # None /\ CanonicalLabel(week_label)[1].week > 53)
              => first_day = None
        /\ week_label \in {wk_2023_54, wk_2023_99} => first_day = None

\* "2023-W54" has been read
C13_Witness ==
    /\ pc = "returned"
    /\ week_label = wk_2023_54
    /\ first_day = None

\* the two parts of a string around its one "_W", None for another string
UnderWParts(s) ==
    IF IsStr(s) /\ Len(Split(s, sUnderW)) = 2 THEN Some(Split(s, sUnderW)) ELSE None

\* the label "<year>-W<week>" of the same parts
DashForm(parts) == parts[1] \o sDashW \o parts[2]

\* C14: a label "<year>_W<week>" whose dash form "<year>-W<week>" parses
\* gives a date, the same one as the dash form; and "Week 2023 05", a
\* four-digit year followed by a number in a string that holds a letter W,
\* parses as year 2023, week 5.
C14_UnderscoreForm ==
    pc = "returned" =>
        /\ (UnderWParts(week_label) # None
            /\ parse_iso_week(DashForm(UnderWParts(week_label)[1])) # None)
              => first_day = parse_iso_week(DashForm(UnderWParts(week_label)[1]))
        /\ week_label = wk_Week_5_of_2023 => first_day = parse_iso_week(wk_2023_05)

\* C15: for a label L that strftime('%Y-W%U') gives to some date a
\* Timestamp holds, parse_iso_week(L) is the first day of the week L
\* denotes, and a day whose own label is L: producer, parser, producer gives
\* L again.
C15_ParserInvertsProducer ==
    (pc = "returned" /\ CanonicalLabel(week_label) # None
     /\ CanonicalLabel(week_label)[1].year \in TimestampMinYear..TimestampMaxYear
     /\ LabelDays(CanonicalLabel(week_label)[1]) # {}) =>
        /\ first_day # None
        /\ first_day[1] = MinOf(LabelDays(CanonicalLabel(week_label)[1]))
        /\ first_day[1] \in LabelDays(CanonicalLabel(week_label)[1])

(***************************************************************************)
(* The shape of the returned table (specification Spec)                    *)
(***************************************************************************)
\* no two rows of the table have the same (ISO Week, Role, Contractor)
DistinctKeys(r) ==
    \A g, h \in DOMAIN r : g # h => RecordKey(r[g]) # RecordKey(r[h])

\* C16: the returned table has at most one row per (ISO Week, Role,
\* Contractor), whether grouped, default or synthetic, and every triple of
\* the normalised rows has its row.
C16_OneRowPerTriple ==
    /\ pc = "returned" => DistinctKeys(result)
    /\ Returned =>
          \A i \in 1..frame.len :
              \E g \in DOMAIN result : RecordKey(result[g]) = Key3(frame, i)

(***************************************************************************)
(* process_data and its argument (specification Spec)                      *)
(***************************************************************************)
\* C17: no step of process_data changes the caller's table, columns or
\* cells, on the path that returns the grouping and on the one that ends in
\* the except clause; and a call that does not end in the synthetic dataset
\* returns what a call on the caller's table, as it now is, returns.
C17_PureTransformation ==
    /\ [][df' = df]_vars
    /\ [](Returned => \E inferFormat \in BOOLEAN :
                         result = process_data(df, inferFormat, <<>>))

\* a call has returned the grouping of a frame that has more columns than
\* the caller's table of two rows
C17_Witness ==
    /\ Returned
    /\ df.len = 2
    /\ Len(frame.columns) > Len(df.columns)
    /\ \E inferFormat \in BOOLEAN : result = process_data(df, inferFormat, <<>>)

(***************************************************************************)
(* The synthetic dataset (specification Spec)                              *)
(***************************************************************************)
\* the 14 periods "2023-W01" to "2023-W14", written out
SyntheticPeriods ==
    {<<"2","0","2","3","-","W">> \o w :
        w \in {<<"0","1">>, <<"0","2">>, <<"0","3">>, <<"0","4">>, <<"0","5">>,
               <<"0","6">>, <<"0","7">>, <<"0","8">>, <<"0","9">>, <<"1","0">>,
               <<"1","1">>, <<"1","2">>, <<"1","3">>, <<"1","4">>}}

\* C18: the synthetic dataset has exactly 168 rows and its triples are all
\* the 168 triples, so it has one row for each triple of
\* the 14 periods "2023-W01" to "2023-W14", the roles Manager, Supervisor,
\* Operative, Director and the contractors "Contractor A", "Contractor B",
\* "Contractor C", each with a whole Number of Workers from 1 to 19,
\* whatever is drawn.
C18_SyntheticIsFullProduct ==
    (pc = "returned" /\ frame.raised) =>
        /\ Len(result) = 168
        /\ {RecordKey(result[g]) : g \in DOMAIN result}
              = SyntheticPeriods \X {sManager, sSupervisor, sOperative, sDirector}
                                \X {sContractor_A, sContractor_B, sContractor_C}
        /\ \A g \in DOMAIN result : result[g].Number_of_Workers \in 1..19

\* the synthetic dataset has been returned with two different counts in it
C18_Witness ==
    /\ pc = "returned"
    /\ frame.raised
    /\ \E g, h \in DOMAIN result :
          result[g].Number_of_Workers # result[h].Number_of_Workers

(***************************************************************************)
(* C19 (checked under SpecWeeks)                                           *)
(***************************************************************************)
\* the labels of seq whose date is d, in the order of seq
RECURSIVE LabelsOfDate(_, _)
LabelsOfDate(seq, d) ==
    IF Len(seq) = 0 THEN <<>>
    ELSE IF parse_iso_week(Head(seq)) = d
         THEN <<Head(seq)>> \o LabelsOfDate(Tail(seq), d)
         ELSE LabelsOfDate(Tail(seq), d)

\* the dates the labels of seq parse to
DatesOf(seq) == {parse_iso_week(seq[i]) : i \in DOMAIN seq} \ {None}

\* C19: sort_iso_weeks is stable for equal dates: the labels that parse to
\* one date stand in the result in the order they have in the argument;
\* ["2023-W01","2023-W1"] and ["2023-W1","2023-W01"] are returned as they
\* are, and so are a week-00 label and the last-week label of the year
\* before that name the same Monday.
C19_SortIsStable ==
    pc = "returned" =>
        /\ \A d \in DatesOf(weeks) :
              LabelsOfDate(sorted_weeks, d) = LabelsOfDate(weeks, d)
        /\ \A a, b \in {wk_2023_01, wk_2023_1} :
              weeks = <<a, b>> => sorted_weeks = <<a, b>>
        /\ \A a, b \in {wk_2023_53, wk_2024_00} :
              weeks = <<a, b>> => sorted_weeks = <<a, b>>

\* two different labels of one date have been sorted, the one with the
\* greater text first, with a label of a later date in front of them
C19_Witness ==
    /\ pc = "returned"
    /\ weeks = <<wk_2023_02, wk_2023_1, wk_2023_01>>
    /\ sorted_weeks = <<wk_2023_1, wk_2023_01, wk_2023_02>>
    /\ parse_iso_week(wk_2023_1) = parse_iso_week(wk_2023_01)
    /\ parse_iso_week(wk_2023_53) = parse_iso_week(wk_2024_00)

(***************************************************************************)
(* C20 (specification Spec)                                                *)
(***************************************************************************)
\* a table read without header, of at least twelve columns: every column
\* name is a position
FullyPositional(t) ==
    /\ IsTable(t)
    /\ Len(t.columns) >= 12
    /\ \A c \in DOMAIN t.columns : ~IsStr(t.columns[c])

\* C20: a headerless table of at least twelve columns is processed as a
\* tracking export under the template (Contractor first, Role eleventh):
\* no error is raised, the result is not the synthetic dataset, and its
\* Contractor and Role values are values of the table's first and eleventh
\* columns.
C20_PositionalIsTrackingExport ==
    (pc = "returned" /\ FullyPositional(df)) =>
        /\ ~frame.raised
        /\ Len(result) > 0
        /\ \A g \in DOMAIN result :
              /\ result[g].Contractor \in Range(df.values[1])
              /\ result[g].Role \in Range(df.values[11])

(***************************************************************************)
(* Resolution of columns (specification SpecCases)                         *)
(***************************************************************************)
\* the canonical names of the three roles, each with the role's own name
CanonicalContractor == contractor_cols
CanonicalRole == <<sRole>> \o role_cols
CanonicalArea == <<sArea>> \o area_cols

\* the columns whose name is a canonical name, whatever the case
ExactCols(t, canon) ==
    {i \in DOMAIN t.columns : LowerIn(StrLower(t.columns[i]), canon)}

\* the role holds the values of a column that matches exactly, when there
\* is one
ResolvedExactly(t, f, role, canon) ==
    ExactCols(t, canon) # {} =>
        /\ HasCol(f, role)
        /\ \E i \in ExactCols(t, canon) : Col(f, role) = t.values[i]

\* C21: in both families a column whose name is, whatever the case, a
\* canonical name of Role, Contractor or Area (the role's own name
\* included: "role", "ROLE", "contractor", "PROVIDER", "area", "AREA") is
\* resolved to that role, and the normalised rows hold its values.
C21_ExactMatchAnyCase ==
    (pc \in {"normalized", "returned"} /\ StrNames(df)) =>
        /\ ~frame.raised
        /\ ResolvedExactly(df, frame, sRole, CanonicalRole)
        /\ ResolvedExactly(df, frame, sContractor, CanonicalContractor)
        /\ ResolvedExactly(df, frame, sArea, CanonicalArea)

\* the columns whose name holds a canonical token, whatever the case
SubstringCols(t, canon) ==
    {i \in DOMAIN t.columns : LowerContainsAny(StrLower(t.columns[i]), canon)}

\* without an exact match the role holds the values of a column that
\* matches by substring, when there is one; with an exact match it does not
\* hold the values of a column that matches by substring only
ResolvedBySubstring(t, f, role, canon) ==
    /\ (ExactCols(t, canon) = {} /\ SubstringCols(t, canon) # {}) =>
          /\ HasCol(f, role)
          /\ \E i \in SubstringCols(t, canon) : Col(f, role) = t.values[i]
    /\ (ExactCols(t, canon) # {} /\ HasCol(f, role)) =>
          \A i \in SubstringCols(t, canon) \ ExactCols(t, canon) :
              Col(f, role) # t.values[i]

\* C22: in both families, when no column name is a canonical name of Role,
\* Contractor or Area, a column whose name contains a canonical token
\* ("Worker Position", "Company Name", "Site Location") is resolved to the
\* role, before the positional fallback and the default; and an exact match
\* is preferred to a substring match in either column order.
C22_SubstringAfterExact ==
    (pc \in {"normalized", "returned"} /\ StrNames(df)) =>
        /\ ~frame.raised
        /\ ResolvedBySubstring(df, frame, sRole, CanonicalRole)
        /\ ResolvedBySubstring(df, frame, sContractor, CanonicalContractor)
        /\ ResolvedBySubstring(df, frame, sArea, CanonicalArea)

\* the first column has fewer distinct values than half the rows
FirstColumnRepeats(t) ==
    Len(t.columns) > 0 /\ 2 * Cardinality(Range(t.values[1])) < t.len

\* no column name holds a canonical token of the role
Unnamed(t, canon) == SubstringCols(t, canon) = {}

\* C23: in any table, when no column is found for Contractor by name, the
\* first column is Contractor if and only if it has fewer distinct values
\* than half the rows, and otherwise Contractor is "Unknown Contractor" in
\* every row; a Role or an Area that no column is found for by name is the
\* default, never the first column.
C23_PositionalContractorOnly ==
    (pc \in {"normalized", "returned"} /\ StrNames(df)) =>
        /\ ~frame.raised
        /\ Unnamed(df, CanonicalContractor) =>
              /\ HasCol(frame, sContractor)
              /\ Col(frame, sContractor) =
                    IF FirstColumnRepeats(df) THEN df.values[1]
                    ELSE Broadcast(df, sUnknown_Contractor)
        /\ Unnamed(df, CanonicalRole) => AllCells(frame, sRole, sWorker)
        /\ (Unnamed(df, CanonicalArea) /\ HasCol(frame, sArea))
              => AllCells(frame, sArea, sSite)

(***************************************************************************)
(* Timestamps of the In column (specification SpecCases)                   *)
(***************************************************************************)
\* the table has the columns In and Out
HasInOut(t) == IsTable(t) /\ HasCol(t, sIn) /\ HasCol(t, sOut)

\* the value read with the k-th listed format: the datetime, NaT for a
\* missing cell, None for a value the format or the Timestamp range refuses
ReadWith(v, k) ==
    IF IsNull(v) THEN Some(NaT)
    ELSE LET d == Strptime(v, date_formats[k])
         IN  IF d # None /\ d[1].year \in TimestampMinYear..TimestampMaxYear
             THEN d ELSE None

\* the k-th listed format reads every value of the column, which has one
ReadsAll(col, k) ==
    /\ \E i \in DOMAIN col : ~IsNull(col[i])
    /\ \A i \in DOMAIN col : ReadWith(col[i], k) # None

\* C24: the listed formats are tried in their order and the first one that
\* reads every value of In is adopted for all its rows ("01/02/2024 10:00"
\* is 1 February); the permissive parser is tried only when no listed
\* format reads the column, and the regex only when the permissive parser
\* fails too.
C24_FirstFormatForWholeColumn ==
    (pc \in {"normalized", "returned"} /\ HasInOut(df)) =>
        LET col == Col(df, sIn)
            listed == {k \in DOMAIN date_formats : ReadsAll(col, k)}
        IN  /\ ~frame.raised
            /\ listed # {} =>
                  /\ HasCol(frame, sDateTime)
                  /\ \A i \in DOMAIN col :
                        Col(frame, sDateTime)[i] = ReadWith(col[i], MinOf(listed))[1]
            /\ (listed = {} /\ HasCol(frame, sDateTime)) =>
                  \E b \in BOOLEAN : ToDatetime(col, b) = Some(Col(frame, sDateTime))
            /\ ~HasCol(frame, sDateTime) =>
                  /\ listed = {}
                  /\ \E b \in BOOLEAN : ToDatetime(col, b) = None
                  /\ \A i \in DOMAIN col :
                        Col(frame, sISO_Week)[i] = extract_year_week(col[i])
            /\ (\A i \in DOMAIN col : col[i] = ts_amb_1000) =>
                  /\ HasCol(frame, sDateTime)
                  /\ \A i \in DOMAIN col :
                        /\ Col(frame, sDateTime)[i].day = 1
                        /\ Col(frame, sDateTime)[i].month = 2

\* an ambiguous value and a value only the day-first format reads have been
\* read with one format
C24_Witness ==
    /\ pc = "normalized"
    /\ HasInOut(df) /\ HasCol(frame, sDateTime)
    /\ Col(df, sIn) = <<ts_amb_1000, ts_13_1127>>
    /\ Col(frame, sDateTime)[1].month = 2
    /\ Col(frame, sDateTime)[2].month = 6

(***************************************************************************)
(* Duration (specification SpecCases)                                      *)
(***************************************************************************)
AllFormats == Range(date_formats) \cup Range(PermissiveFormats)

\* the datetimes a value can be read as with the day before the month, or
\* with the month before the day; a value with the year first is read the
\* same way in both
ReadingsInOrder(v, dayfirst) ==
    {Strptime(v, f)[1] :
        f \in {g \in AllFormats :
                 /\ Strptime(v, g) # None
                 /\ Strptime(v, g)[1].year \in TimestampMinYear..TimestampMaxYear
                 /\ (g[1] = "%Y" \/ ((g[1] = "%d") <=> dayfirst))}}

\* one format reads every cell of the column that is not missing
ColumnReadable(col) ==
    \E f \in AllFormats :
        \A i \in DOMAIN col :
            \/ IsNull(col[i])
            \/ /\ Strptime(col[i], f) # None
               /\ Strptime(col[i], f)[1].year \in TimestampMinYear..TimestampMaxYear

\* the Duration of a row is the time from its In to its Out, both read in
\* one order of day and month; it is missing when a cell is
OutMinusIn(in_cell, out_cell, duration) ==
    IF IsNull(in_cell) \/ IsNull(out_cell) THEN duration = FloatNaN
    ELSE \E dayfirst \in BOOLEAN :
            \E a \in ReadingsInOrder(in_cell, dayfirst) :
                \E b \in ReadingsInOrder(out_cell, dayfirst) :
                    duration = Float(SecondsBetween(a, b))

\* C25: in the time-tracker family the Duration column is always made,
\* without an exception leaving the step: from Total Minutes when the
\* column exists, a cell that is no number becoming NaN; else, with In and
\* Out, as Out minus In in minutes, or as 60 in every row when the
\* timestamps of a column cannot be read; else as 60 in every row.
C25_DurationInOrder ==
    (pc \in {"normalized", "returned"} /\ StrNames(df) /\ time_format(df)) =>
        /\ HasCol(frame, sDuration)
        /\ LET duration == Col(frame, sDuration)
           IN  IF HasCol(df, sTotal_Minutes)
               THEN \A i \in 1..df.len :
                       LET cell == Col(df, sTotal_Minutes)[i]
                       IN  duration[i] =
                              IF IsStr(cell) /\ Len(cell) > 0 /\ AllDigits(cell)
                              THEN Minutes(DigitsValue(cell)) ELSE FloatNaN
               ELSE IF HasInOut(df)
                    THEN \/ /\ \A i \in 1..df.len : duration[i] = Minutes(60)
                            /\ \/ ~ColumnReadable(Col(df, sIn))
                               \/ ~ColumnReadable(Col(df, sOut))
                         \/ \A i \in 1..df.len :
                               OutMinusIn(Col(df, sIn)[i], Col(df, sOut)[i], duration[i])
                    ELSE \A i \in 1..df.len : duration[i] = Minutes(60)

(***************************************************************************)
(* PersonIdentifier (specification SpecCases)                              *)
(***************************************************************************)
\* the column that supplies the identity: Worker Name, else Bio ID, else
\* the first column whose name holds a token of person_cols; 0 without one
IdentityColumn(t) ==
    IF HasCol(t, sWorker_Name) THEN ColIndex(t, sWorker_Name)
    ELSE IF HasCol(t, sBio_ID) THEN ColIndex(t, sBio_ID)
         ELSE IF SubstringCols(t, person_cols) # {}
              THEN MinOf(SubstringCols(t, person_cols)) ELSE 0

\* the identity of a row and, when the table has a Worker ID, its id
WorkerPair(t, i) ==
    IF HasCol(t, sWorker_ID)
    THEN <<t.values[IdentityColumn(t)][i], Col(t, sWorker_ID)[i]>>
    ELSE <<t.values[IdentityColumn(t)][i]>>

\* C26: the PersonIdentifier of a row is its identity value, joined with
\* the Worker ID by an underscore when the table has that column, whichever
\* column supplied the identity; two rows have the same PersonIdentifier
\* exactly when they have the same identity and id, so that two workers of
\* one group are counted as two.
C26_PersonIdentifierDistinguishes ==
    (pc \in {"normalized", "returned"} /\ StrNames(df) /\ time_format(df)
        /\ IdentityColumn(df) # 0) =>
        /\ ~frame.raised
        /\ \A i \in 1..df.len :
              Col(frame, sPersonIdentifier)[i] =
                 IF HasCol(df, sWorker_ID)
                 THEN WorkerPair(df, i)[1] \o sUnderscore \o WorkerPair(df, i)[2]
                 ELSE WorkerPair(df, i)[1]
        /\ \A i, j \in 1..df.len :
              (Col(frame, sPersonIdentifier)[i] = Col(frame, sPersonIdentifier)[j])
                 <=> (WorkerPair(df, i) = WorkerPair(df, j))
        /\ (pc = "returned" /\ Len(result) = 1) =>
              result[1].Number_of_Workers
                 = Cardinality({WorkerPair(df, i) : i \in 1..df.len})

(***************************************************************************)
(* The labels process_data emits and parse_iso_week (SpecCases)            *)
(***************************************************************************)
\* the Period labels of the aggregated table, in row order
PeriodLabels == [g \in DOMAIN result |-> result[g].ISO_Week]

\* C27: every Period label of a returned table other than "Unknown Week"
\* is accepted by parse_iso_week, so sort_iso_weeks applied to the labels
\* of the table drops nothing but "Unknown Week".
C27_EveryLabelParses ==
    Returned =>
        /\ \A g \in DOMAIN result :
              PeriodLabels[g] # sUnknownWeek
                 => parse_iso_week(PeriodLabels[g]) # None
        /\ Range(sort_iso_weeks(PeriodLabels))
              = Range(PeriodLabels) \ {sUnknownWeek}

(***************************************************************************)
(* The app (specification SpecApp)                                         *)
(***************************************************************************)
\* the page of step 2 with its charts is shown
Visualizing == "load_new_file" \in page.buttons

\* C28: whenever the visualization of a loaded dataset is shown, after any
\* sequence of uploads, continues and resets, the role-to-colour map of the
\* session has an entry for every Role value of that dataset: a map built
\* for an earlier file is not reused.
C28_RoleColoursCoverDataset ==
    Visualizing =>
        \A role \in Range(RolesOf(session.data)) :
            role \in DOMAIN session.role_colors

\* the session holds the file_name, raw_data and data of the upload of f
LoadedFrom(f) ==
    /\ f.df # None
    /\ Has(session, "file_name") /\ session.file_name = f.name
    /\ Has(session, "raw_data") /\ session.raw_data = f.df[1]
    /\ Has(session, "data")
    /\ \E inferFormat \in BOOLEAN, draws \in ScriptDraws :
          session.data = process_data(f.df[1], inferFormat, draws)
    /\ calculate_unique_workers(f.df[1]) # None

\* C29: step is 1 or 2; at step 2 the session holds the data, raw_data and
\* file_name of one and the same upload that was processed to its end;
\* after Load New File the step is 1 and the three keys are gone.
C29_StepAndLoadedData ==
    /\ session.step \in {1, 2}
    /\ session.step = 2 => \E f \in UploadedFiles : LoadedFrom(f)
    /\ page.last_call = "load_new_file" =>
          /\ session.step = 1
          /\ \A k \in {"data", "raw_data", "file_name"} : ~Has(session, k)

\* Load New File has been clicked on the visualization of an upload
C29_Witness ==
    /\ page.last_call = "load_new_file"
    /\ session.step = 1
    /\ ~Has(session, "data")

\* C30: selected_contractor is None exactly when selected_contractors is
\* empty and is its first element otherwise; after select_contractor or
\* update_selected_contractor the contractors of the time analysis and of
\* the role distribution both equal selected_contractor.
C30_SelectionSynchronised ==
    /\ (session.selected_contractor = None)
          <=> (Len(session.selected_contractors) = 0)
    /\ Len(session.selected_contractors) > 0 =>
          session.selected_contractor = Some(session.selected_contractors[1])
    /\ page.last_call \in {"select_contractor", "update_selected_contractor"} =>
          /\ session.time_analysis_contractor = session.selected_contractor
          /\ session.role_dist_contractor = session.selected_contractor

\* two contractors are selected, the second option first, and the toggle
\* has been used on that selection
C30_Witness ==
    /\ page.last_call = "select_contractor"
    /\ session.selected_contractors = <<vBolt, vAcme>>
    /\ session.selected_contractor = Some(vBolt)
    /\ ~session.allow_multiple_selection

====
